---- MODULE Spec2Model ----
(***************************************************************************)
(* Model of the OptionsTrader decision server.                             *)
(*                                                                         *)
(*   Part I   TTLCache (src/api/cache.py): the store, the per-key lock     *)
(*            table and the coroutines running get_or_fetch, one action    *)
(*            per run of code between two suspension points.               *)
(*   Part II  RegimeClassifier.classify (services/engine/regime.py).       *)
(*   Part III StrategySelector.select (services/engine/selector.py) over   *)
(*            the StrategyUniverse catalog (services/engine/strategies.py).*)
(*   Part IV  AdjustmentEngine.evaluate and ExitEngine.evaluate            *)
(*            (services/engine/adjustments.py, exits.py).                  *)
(*   Part V   DecisionEngine (services/engine/engine.py) with the tail     *)
(*            risk manager and the conflict resolver.                      *)
(*   Part VI  AggregatedProvider and the fallback walk of                  *)
(*            MCPClientManager (services/mcp_client).                      *)
(*   Part VII MCPClientManager (services/mcp_client/manager.py) as the    *)
(*            event loop runs it: startup, toggle_server,                  *)
(*            reconnect_server and call_tool_with_fallback, one action    *)
(*            per run of code between two suspension points.               *)
(*                                                                         *)
(* Numbers are scaled integers: VIX, percentiles, HY-OAS changes, days and *)
(* depth in units of 1; ts_1m_3m, iv_rv_spread, put skew and               *)
(* bid_ask_widening in tenths; spx_bid_ask in thousandths; scores in       *)
(* ten-thousandths before rounding and in hundredths after.                *)
(***************************************************************************)
EXTENDS Integers, Sequences, FiniteSets, TLC

VARIABLES
    \* ---- Part I: TTLCache ----
    store,      \* _store: key -> entry (present, value, expire_at)
    locks,      \* _locks: the keys that have a lock object
    holder,     \* asyncio.Lock state of a key's lock: caller holding it, 0 if free
    waitq,      \* asyncio.Lock state of a key's lock: FIFO of suspended callers
    now,        \* time.monotonic()
    pc,         \* caller -> position inside get_or_fetch
    ckey,       \* caller -> key argument of its call
    cttl,       \* caller -> ttl_seconds argument of its call
    result,     \* caller -> what its call returned or raised
    fout,       \* caller -> its fetch_fn invocation: none, running, ok, raised
                \*           or cancelled
    joined,     \* caller -> the caller whose fetch_fn was in flight on its
                \*           key when it arrived (itself if it started one)
    lastOp,     \* set by get(): its key and return value; reset by every other step
    overtaken,  \* the callers whose fetch_fn invocation was running for a key
                \* when invalidate, invalidate_prefix or clear removed the key;
                \* Unobserved when the removals are not being recorded
    \* ---- Part II/III: decision engine ----
    inputs,     \* the MarketInputs snapshot
    regime,     \* the RegimeResult of classify, or the regime given to select
    objective,  \* objective argument of select
    scored,     \* scores computed by _score during the last select
    reco,       \* the StrategyRecommendation returned by select
    phase,      \* which step of the engine pipeline has run
    \* ---- Part IV: adjustment and exit rules ----
    position,   \* the position mapping given to evaluate
    previous,   \* previous_regime argument of evaluate: {} for None
    adj_rules,  \* {} or what AdjustmentEngine.evaluate returned
    exit_rules, \* {} or the nav given to ExitEngine.evaluate and its return
    \* ---- Part V: DecisionEngine ----
    previous_regime, \* _previous_regime: {} for None
    last_inputs,     \* _last_inputs: {} for None
    last_call,       \* the last entry point called, its arguments and outcome
    \* ---- Part VI: AggregatedProvider ----
    mcp,             \* MCPClientManager: enabled servers and _sessions
    remote,          \* what each external tool server currently answers
    provider_call,   \* the last provider call: primary outcome, tool calls
                     \* made on fallback servers, and what it returned or raised
    statuses,        \* MCPClientManager._statuses: the servers that have one
    connecting,      \* per server, the _connect_server calls that are awaiting
    fallback         \* the call_tool_with_fallback in progress, if any

cacheVars == << store, locks, holder, waitq, now, pc, ckey, cttl, result,
                fout, joined, lastOp, overtaken >>

engineVars == << inputs, regime, objective, scored, reco, phase >>

rulesVars == << position, previous, adj_rules, exit_rules >>

facadeVars == << previous_regime, last_inputs, last_call >>

providerVars == << mcp, remote, provider_call, statuses, connecting,
                   fallback >>

vars == << store, locks, holder, waitq, now, pc, ckey, cttl, result,
           fout, joined, lastOp, overtaken,
           inputs, regime, objective, scored, reco, phase,
           position, previous, adj_rules, exit_rules,
           previous_regime, last_inputs, last_call,
           mcp, remote, provider_call >>

(***************************************************************************)
(* Part I.  TTLCache                                                       *)
(*                                                                         *)
(* Each caller runs get_or_fetch once.  Callers are numbered in order of   *)
(* arrival, and the fetch_fn invocation started by caller c returns the    *)
(* value c, so that the values of different invocations differ.  A lock    *)
(* object is never removed from _locks, so it is identified by its key.    *)
(* When a call returns or raises, its frame (key, ttl) is dropped.         *)
(* joined and overtaken are history variables: no step of the code reads   *)
(* them.  overtaken is recorded only in SpecRemoval, which starts it empty.*)
(***************************************************************************)

NCallers == 2
MaxTime == 1
MaxTtl == 1

Callers == 1..NCallers
\* ttl_seconds arguments: 0, whose entry is never fresh, and the longest.
Ttls == {0, MaxTtl}

\* Keys are character sequences so that str.startswith is computed.
Keys == { <<"q", "A">>, <<"i", "A">> }
Prefixes == { << >>, <<"q">>, <<"q", "B">> }

\* The value put by set().
ManualValue == 0

NoEntry == [present |-> FALSE, value |-> 0, expire_at |-> 0]
Entry(v, exp) == [present |-> TRUE, value |-> v, expire_at |-> exp]

NoResult == [kind |-> "none", v |-> 0]
ValueResult(v) == [kind |-> "value", v |-> v]
ErrorResult == [kind |-> "error", v |-> 0]
CancelledResult == [kind |-> "cancelled", v |-> 0]

NoOp == [op |-> "none", key |-> << >>, ret |-> NoResult]
Op(name, k, r) == [op |-> name, key |-> k, ret |-> r]

StartsWith(k, p) == Len(p) <= Len(k) /\ SubSeq(k, 1, Len(p)) = p

\* get_or_fetch fast path: "entry is not None and time.monotonic() < expire_at"
FastPathHit(k) == store[k].present /\ now < store[k].expire_at

\* get_or_fetch double-check under the lock
DoubleCheckHit(k) == store[k].present /\ now < store[k].expire_at

\* get(): the entry is returned only while time.monotonic() < expire_at
GetHit_inclusive(k) == store[k].present /\ now <= store[k].expire_at

GetHit(k) == store[k].present /\ now < store[k].expire_at

\* _get_lock: the lock of the key is created on first use and then reused.
GetLock(k) == locks \cup {k}

\* asyncio.Lock.acquire() returns at once when the lock is free and nobody
\* is queued for it.
LockFree(k) == holder[k] = 0 /\ waitq[k] = << >>

\* The callers whose fetch_fn invocation is running for key k.
Fetching(k) == { d \in Callers : pc[d] = "fetching" /\ ckey[d] = k }

\* The caller whose fetch_fn invocation is running for key k, 0 if none.
InFlight(k) == IF Fetching(k) = {} THEN 0 ELSE CHOOSE d \in Fetching(k) : TRUE

\* The caller whose fetched value is stored, unexpired, at key k; 0 if none.
Intact(k) ==
    IF store[k].present /\ store[k].value # ManualValue
                        /\ now < store[k].expire_at
    THEN store[k].value ELSE 0

Remove(q, c) == SelectSeq(q, LAMBDA x : x # c)

\* The value of overtaken while removals are not recorded; 0 is no caller.
Unobserved == {0}

\* overtaken after the keys of set keys have been removed from _store.
Overtaken(keys) ==
    IF overtaken = Unobserved THEN overtaken
    ELSE overtaken \cup UNION { Fetching(k) : k \in keys }

CacheInit ==
    /\ store = [k \in Keys |-> NoEntry]
    /\ locks = {}
    /\ holder = [k \in Keys |-> 0]
    /\ waitq = [k \in Keys |-> << >>]
    /\ now = 0
    /\ pc = [c \in Callers |-> "idle"]
    /\ ckey = [c \in Callers |-> << >>]
    /\ cttl = [c \in Callers |-> 0]
    /\ result = [c \in Callers |-> NoResult]
    /\ fout = [c \in Callers |-> "none"]
    /\ joined = [c \in Callers |-> 0]
    /\ lastOp = NoOp
    /\ overtaken = Unobserved

\* get_or_fetch returns or raises r to caller c; its frame is dropped.
Return(c, r) ==
    /\ pc' = [pc EXCEPT ![c] = "done"]
    /\ result' = [result EXCEPT ![c] = r]
    /\ ckey' = [ckey EXCEPT ![c] = << >>]
    /\ cttl' = [cttl EXCEPT ![c] = 0]
    /\ joined' = joined

\* "value = await fetch_fn()" is reached by caller c holding the lock of k:
\* the invocation starts and the coroutine suspends inside it.
StartFetch(c, k) ==
    /\ holder' = [holder EXCEPT ![k] = c]
    /\ pc' = [pc EXCEPT ![c] = "fetching"]
    /\ fout' = [fout EXCEPT ![c] = "running"]
    /\ result' = [result EXCEPT ![c] = NoResult]

\* get_or_fetch from its entry to its first suspension point (or return).
Call_nolock(c, k, ttl) ==
    /\ pc[c] = "idle"
    /\ \A d \in Callers : d < c => pc[d] # "idle"
    /\ lastOp' = NoOp
    /\ UNCHANGED << store, now >>
    /\ IF FastPathHit(k)
       THEN /\ Return(c, ValueResult(store[k].value))
            /\ UNCHANGED << locks, holder, waitq, fout >>
       ELSE /\ locks' = GetLock(k)
            /\ StartFetch(c, k)
            /\ ckey' = [ckey EXCEPT ![c] = k]
            /\ cttl' = [cttl EXCEPT ![c] = ttl]
            /\ joined' = [joined EXCEPT ![c] = c]
            /\ UNCHANGED waitq
    /\ UNCHANGED << overtaken, engineVars, rulesVars, facadeVars, providerVars >>

Call(c, k, ttl) ==
    /\ pc[c] = "idle"
    /\ \A d \in Callers : d < c => pc[d] # "idle"
    /\ lastOp' = NoOp
    /\ UNCHANGED << store, now >>
    /\ IF FastPathHit(k)
       THEN /\ Return(c, ValueResult(store[k].value))
            /\ UNCHANGED << locks, holder, waitq, fout >>
       ELSE /\ locks' = GetLock(k)
            /\ IF LockFree(k)
               THEN \* lock.acquire() returns without suspending
                    IF DoubleCheckHit(k)
                    THEN /\ Return(c, ValueResult(store[k].value))
                         /\ UNCHANGED << holder, waitq, fout >>
                    ELSE /\ StartFetch(c, k)
                         /\ ckey' = [ckey EXCEPT ![c] = k]
                         /\ cttl' = [cttl EXCEPT ![c] = ttl]
                         /\ joined' = [joined EXCEPT ![c] = c]
                         /\ UNCHANGED waitq
               ELSE \* suspend in lock.acquire()
                    /\ waitq' = [waitq EXCEPT ![k] = Append(@, c)]
                    /\ pc' = [pc EXCEPT ![c] = "waiting"]
                    /\ ckey' = [ckey EXCEPT ![c] = k]
                    /\ cttl' = [cttl EXCEPT ![c] = ttl]
                    /\ joined' = [joined EXCEPT ![c] = InFlight(k)]
                    /\ UNCHANGED << holder, result, fout >>
    /\ UNCHANGED << overtaken, engineVars, rulesVars, facadeVars, providerVars >>

\* A waiter at the head of the lock's queue resumes with the lock, re-checks
\* the store and either returns the stored value or starts fetch_fn.
Wake_nocheck(c) ==
    LET k == ckey[c]
    IN  /\ pc[c] = "waiting"
        /\ holder[k] = 0
        /\ Head(waitq[k]) = c
        /\ waitq' = [waitq EXCEPT ![k] = Tail(@)]
        /\ StartFetch(c, k)
        /\ UNCHANGED << store, locks, now, ckey, cttl, joined >>
        /\ lastOp' = NoOp
        /\ UNCHANGED << overtaken, engineVars, rulesVars, facadeVars, providerVars >>

Wake(c) ==
    LET k == ckey[c]
    IN  /\ pc[c] = "waiting"
        /\ holder[k] = 0
        /\ Head(waitq[k]) = c
        /\ waitq' = [waitq EXCEPT ![k] = Tail(@)]
        /\ IF DoubleCheckHit(k)
           THEN /\ Return(c, ValueResult(store[k].value))
                /\ UNCHANGED << holder, fout >>
           ELSE /\ StartFetch(c, k)
                /\ UNCHANGED << ckey, cttl, joined >>
        /\ UNCHANGED << store, locks, now >>
        /\ lastOp' = NoOp
        /\ UNCHANGED << overtaken, engineVars, rulesVars, facadeVars, providerVars >>

\* fetch_fn returns: the value is stored with expire_at = now + ttl, the
\* lock is released and the value returned.
FetchOk(c) ==
    LET k == ckey[c]
    IN  /\ pc[c] = "fetching"
        /\ store' = [store EXCEPT ![k] = Entry(c, now + cttl[c])]
        /\ holder' = [holder EXCEPT ![k] = 0]
        /\ Return(c, ValueResult(c))
        /\ fout' = [fout EXCEPT ![c] = "ok"]
        /\ UNCHANGED << locks, waitq, now >>
        /\ lastOp' = NoOp
        /\ UNCHANGED << overtaken, engineVars, rulesVars, facadeVars, providerVars >>

\* fetch_fn raises: the exception leaves "async with", releasing the lock,
\* and propagates to the caller; line 65 is not reached.
FetchRaise_caches(c) ==
    LET k == ckey[c]
    IN  /\ pc[c] = "fetching"
        /\ store' = [store EXCEPT ![k] = Entry(c, now + cttl[c])]
        /\ holder' = [holder EXCEPT ![k] = 0]
        /\ Return(c, ErrorResult)
        /\ fout' = [fout EXCEPT ![c] = "raised"]
        /\ UNCHANGED << locks, waitq, now >>
        /\ lastOp' = NoOp
        /\ UNCHANGED << overtaken, engineVars, rulesVars, facadeVars, providerVars >>

FetchRaise(c) ==
    /\ pc[c] = "fetching"
    /\ holder' = [holder EXCEPT ![ckey[c]] = 0]
    /\ Return(c, ErrorResult)
    /\ fout' = [fout EXCEPT ![c] = "raised"]
    /\ UNCHANGED << store, locks, waitq, now >>
    /\ lastOp' = NoOp
    /\ UNCHANGED << overtaken, engineVars, rulesVars, facadeVars, providerVars >>

CancelFetch_keeps_lock(c) ==
    /\ pc[c] = "fetching"
    /\ Return(c, CancelledResult)
    /\ fout' = [fout EXCEPT ![c] = "cancelled"]
    /\ UNCHANGED << store, locks, holder, waitq, now >>
    /\ lastOp' = NoOp
    /\ UNCHANGED << overtaken, engineVars, rulesVars, facadeVars, providerVars >>

\* The task running fetch_fn is cancelled: CancelledError is raised at the
\* await of line 64, the lock is released, nothing is stored.
CancelFetch(c) ==
    /\ pc[c] = "fetching"
    /\ holder' = [holder EXCEPT ![ckey[c]] = 0]
    /\ Return(c, CancelledResult)
    /\ fout' = [fout EXCEPT ![c] = "cancelled"]
    /\ UNCHANGED << store, locks, waitq, now >>
    /\ lastOp' = NoOp
    /\ UNCHANGED << overtaken, engineVars, rulesVars, facadeVars, providerVars >>

\* A task suspended in lock.acquire() is cancelled: it leaves the queue.
CancelWait(c) ==
    /\ pc[c] = "waiting"
    /\ waitq' = [waitq EXCEPT ![ckey[c]] = Remove(@, c)]
    /\ Return(c, CancelledResult)
    /\ UNCHANGED << store, locks, holder, now, fout >>
    /\ lastOp' = NoOp
    /\ UNCHANGED << overtaken, engineVars, rulesVars, facadeVars, providerVars >>

\* get(key): the value while unexpired; an expired entry is deleted.
Get(k) ==
    /\ IF store[k].present
       THEN IF GetHit(k)
            THEN /\ lastOp' = Op("get", k, ValueResult(store[k].value))
                 /\ UNCHANGED store
            ELSE /\ store' = [store EXCEPT ![k] = NoEntry]
                 /\ lastOp' = Op("get", k, NoResult)
       ELSE /\ lastOp' = Op("get", k, NoResult)
            /\ UNCHANGED store
    /\ UNCHANGED << locks, holder, waitq, now, pc, ckey, cttl, result,
                    fout, joined >>
    /\ UNCHANGED << overtaken, engineVars, rulesVars, facadeVars, providerVars >>

\* set(key, value, ttl_seconds)
Set(k, ttl) ==
    /\ store' = [store EXCEPT ![k] = Entry(ManualValue, now + ttl)]
    /\ lastOp' = NoOp
    /\ UNCHANGED << locks, holder, waitq, now, pc, ckey, cttl, result,
                    fout, joined >>
    /\ UNCHANGED << overtaken, engineVars, rulesVars, facadeVars, providerVars >>

\* invalidate(key)
Invalidate(k) ==
    /\ store' = [store EXCEPT ![k] = NoEntry]
    /\ overtaken' = Overtaken(IF store[k].present THEN {k} ELSE {})
    /\ lastOp' = NoOp
    /\ UNCHANGED << locks, holder, waitq, now, pc, ckey, cttl, result,
                    fout, joined >>
    /\ UNCHANGED << engineVars, rulesVars, facadeVars, providerVars >>

\* invalidate_prefix(prefix)
InvalidatePrefix(p) ==
    LET keys == { k \in Keys : store[k].present /\ StartsWith(k, p) }
    IN  /\ store' = [k \in Keys |-> IF k \in keys THEN NoEntry ELSE store[k]]
        /\ overtaken' = Overtaken(keys)
        /\ lastOp' = NoOp
        /\ UNCHANGED << locks, holder, waitq, now, pc, ckey, cttl, result,
                        fout, joined >>
        /\ UNCHANGED << engineVars, rulesVars, facadeVars, providerVars >>

\* clear(): empties _store; _locks is left as it is.
Clear ==
    /\ store' = [k \in Keys |-> NoEntry]
    /\ overtaken' = Overtaken({ k \in Keys : store[k].present })
    /\ lastOp' = NoOp
    /\ UNCHANGED << locks, holder, waitq, now, pc, ckey, cttl, result,
                    fout, joined >>
    /\ UNCHANGED << engineVars, rulesVars, facadeVars, providerVars >>

\* time.monotonic() advances.
Tick ==
    /\ now < MaxTime
    /\ now' = now + 1
    /\ lastOp' = NoOp
    /\ UNCHANGED << store, locks, holder, waitq, pc, ckey, cttl, result,
                    fout, joined >>
    /\ UNCHANGED << overtaken, engineVars, rulesVars, facadeVars, providerVars >>

EngineIdle ==
    /\ inputs = 0
    /\ regime = 0
    /\ objective = "income"
    /\ scored = << >>
    /\ reco = 0
    /\ phase = "off"

\* No position under evaluation.
RulesIdle ==
    /\ position = << >>
    /\ previous = {}
    /\ adj_rules = {}
    /\ exit_rules = {}

\* No call made to the engine facade.
FacadeIdle ==
    /\ previous_regime = {}
    /\ last_inputs = {}
    /\ last_call = [ entry |-> "none" ]

\* No manager started, no provider call made.
ProviderIdle ==
    /\ mcp = [ enabled |-> {}, sessions |-> {} ]
    /\ remote = << >>
    /\ provider_call = [ capability |-> "none" ]
    /\ statuses = {}
    /\ connecting = << >>
    /\ fallback = [ state |-> "none" ]

Init == CacheInit /\ EngineIdle /\ RulesIdle /\ FacadeIdle /\ ProviderIdle

Next ==
    \/ \E c \in Callers, k \in Keys, ttl \in Ttls : Call(c, k, ttl)
    \/ \E c \in Callers : Wake(c)
    \/ \E c \in Callers : FetchOk(c)
    \/ \E c \in Callers : FetchRaise(c)
    \/ \E c \in Callers : CancelFetch(c)
    \/ \E c \in Callers : CancelWait(c)
    \/ \E k \in Keys : Get(k)
    \/ \E k \in Keys, ttl \in Ttls : Set(k, ttl)
    \/ \E k \in Keys : Invalidate(k)
    \/ \E p \in Prefixes : InvalidatePrefix(p)
    \/ Clear
    \/ Tick

Spec == Init /\ [][Next]_vars

\* The cache with its removals observed.
RemovalInit ==
    /\ store = [k \in Keys |-> NoEntry]
    /\ locks = {}
    /\ holder = [k \in Keys |-> 0]
    /\ waitq = [k \in Keys |-> << >>]
    /\ now = 0
    /\ pc = [c \in Callers |-> "idle"]
    /\ ckey = [c \in Callers |-> << >>]
    /\ cttl = [c \in Callers |-> 0]
    /\ result = [c \in Callers |-> NoResult]
    /\ fout = [c \in Callers |-> "none"]
    /\ joined = [c \in Callers |-> 0]
    /\ lastOp = NoOp
    /\ overtaken = {}
    /\ EngineIdle
    /\ RulesIdle
    /\ FacadeIdle
    /\ ProviderIdle

SpecRemoval == RemovalInit /\ [][Next]_vars

\* The cache under the scheduling of the event loop: a task that
\* Lock.release() has woken is run, and (the hypothesis of the claim about
\* termination) every fetch_fn invocation returns or raises.
Fairness ==
    \A c \in Callers :
        /\ WF_vars(Wake(c))
        /\ WF_vars(FetchOk(c) \/ FetchRaise(c))

SpecLive == Init /\ [][Next]_vars /\ Fairness

(***************************************************************************)
(* Part II.  RegimeClassifier.classify                                     *)
(*                                                                         *)
(* A MarketInputs snapshot is a record of the fields the engine reads.     *)
(* Units: ts_1m_3m, iv_rv_spread, put_skew_25d_1m and bid_ask_widening in  *)
(* tenths; spx_bid_ask and spx_bid_ask_20d_ma in thousandths; the rest in  *)
(* units of 1.                                                             *)
(***************************************************************************)

NORMAL_EMINI_DEPTH == 1500

\* Field defaults of the input models; spx_level, the two moving averages
\* and vix have no default and are given a value by every snapshot.
DefaultInputs ==
    [ spx_level               |-> 102,
      spx_sma_50              |-> 105,
      spx_sma_200             |-> 100,
      breadth_pct_above_50dma |-> 50,
      vix                     |-> 19,
      vix_1d_change           |-> 0,
      vix_5d_change           |-> 0,
      vix_percentile_1y       |-> 50,
      vvix                    |-> 18,
      iv_rv_spread            |-> 0,
      put_skew_25d_1m         |-> 50,
      skew_pctile_1y          |-> 50,
      ts_1m_3m                |-> 0,
      days_to_fomc            |-> 30,
      days_to_cpi             |-> 30,
      days_to_nfp             |-> 30,
      days_to_earnings        |-> 30,
      events_next_5d          |-> 0,
      hy_oas_20d_change       |-> 0,
      spx_bid_ask             |-> 50,
      spx_bid_ask_20d_ma      |-> 50,
      bid_ask_widening        |-> 10,
      emini_depth             |-> 1000,
      corr_pctile_1y          |-> 50,
      dispersion              |-> 0 ]

classify_trend(s) ==
    IF s.spx_level > s.spx_sma_50 /\ s.spx_level > s.spx_sma_200
    THEN IF s.breadth_pct_above_50dma > 60 THEN "STRONG_UPTREND" ELSE "UPTREND"
    ELSE IF s.spx_level < s.spx_sma_50 /\ s.spx_level < s.spx_sma_200
         THEN IF s.breadth_pct_above_50dma < 40
              THEN "STRONG_DOWNTREND" ELSE "DOWNTREND"
         ELSE "RANGE_BOUND"

\* Priority 1: the weighted count of crisis signals.
crisis_signals(inp) ==
      (IF inp.vix > 30 THEN 2 ELSE 0)
    + (IF inp.vix_1d_change > 5 THEN 2 ELSE 0)
    + (IF inp.vix > 35 THEN 1 ELSE 0)
    + (IF inp.hy_oas_20d_change > 50 THEN 1 ELSE 0)
    + (IF inp.ts_1m_3m < 0 THEN 1 ELSE 0)
    + (IF inp.bid_ask_widening > 20 THEN 1 ELSE 0)

\* Priority 2: the count of liquidity-stress indicators.
liquidity_stress(inp) ==
      (IF inp.bid_ask_widening > 15 THEN 1 ELSE 0)
    + (IF 10 * inp.spx_bid_ask > 13 * inp.spx_bid_ask_20d_ma THEN 1 ELSE 0)
    + (IF 10 * inp.emini_depth < 6 * NORMAL_EMINI_DEPTH THEN 1 ELSE 0)
    + (IF inp.hy_oas_20d_change > 30 THEN 1 ELSE 0)

\* Priority 3: the first event inside its window, in the order the code
\* tests them.
event_type_of(ev) ==
    IF ev.days_to_fomc <= 5 THEN "FOMC"
    ELSE IF ev.days_to_cpi <= 3 THEN "CPI"
    ELSE IF ev.days_to_nfp <= 3 THEN "NFP"
    ELSE IF ev.days_to_earnings <= 3 THEN "EARNINGS"
    ELSE "NONE"

\* Priority 4: the level from VIX spot.
vol_level_lenient(vix) ==
    IF vix <= 12 THEN "VERY_LOW"
    ELSE IF vix <= 15 THEN "LOW"
    ELSE IF vix <= 20 THEN "NORMAL"
    ELSE IF vix <= 25 THEN "ELEVATED"
    ELSE IF vix <= 30 THEN "HIGH"
    ELSE "EXTREME"

vol_level(vix) ==
    IF vix < 12 THEN "VERY_LOW"
    ELSE IF vix < 15 THEN "LOW"
    ELSE IF vix < 20 THEN "NORMAL"
    ELSE IF vix < 25 THEN "ELEVATED"
    ELSE IF vix <= 30 THEN "HIGH"
    ELSE "EXTREME"

score_confidence_extreme_as_high(vol_regime, inp) ==
      (IF vol_regime \in {"LOW", "VERY_LOW"} /\ inp.iv_rv_spread < 20 THEN 1
       ELSE IF vol_regime \in {"ELEVATED", "HIGH", "EXTREME"} /\ inp.iv_rv_spread > 30
            THEN 1 ELSE 0)
    + (IF vol_regime \in {"ELEVATED", "HIGH", "EXTREME"} /\ inp.put_skew_25d_1m > 60 THEN 1
       ELSE IF vol_regime \in {"LOW", "VERY_LOW"} /\ inp.put_skew_25d_1m < 40
            THEN 1 ELSE 0)
    + (IF vol_regime \in {"LOW", "NORMAL"} /\ inp.ts_1m_3m > 0 THEN 1
       ELSE IF vol_regime \in {"HIGH", "EXTREME"} /\ inp.ts_1m_3m < 10 THEN 1 ELSE 0)
    + (IF vol_regime \in {"LOW", "NORMAL"} /\ inp.hy_oas_20d_change < 20 THEN 1
       ELSE IF vol_regime \in {"ELEVATED", "HIGH", "EXTREME"} /\ inp.hy_oas_20d_change > 30
            THEN 1 ELSE 0)

score_confidence(vol_regime, inp) ==
      (IF vol_regime \in {"LOW", "VERY_LOW"} /\ inp.iv_rv_spread < 20 THEN 1
       ELSE IF vol_regime \in {"ELEVATED", "HIGH"} /\ inp.iv_rv_spread > 30
            THEN 1 ELSE 0)
    + (IF vol_regime \in {"ELEVATED", "HIGH"} /\ inp.put_skew_25d_1m > 60 THEN 1
       ELSE IF vol_regime \in {"LOW", "VERY_LOW"} /\ inp.put_skew_25d_1m < 40
            THEN 1 ELSE 0)
    + (IF vol_regime \in {"LOW", "NORMAL"} /\ inp.ts_1m_3m > 0 THEN 1
       ELSE IF vol_regime = "HIGH" /\ inp.ts_1m_3m < 10 THEN 1 ELSE 0)
    + (IF vol_regime \in {"LOW", "NORMAL"} /\ inp.hy_oas_20d_change < 20 THEN 1
       ELSE IF vol_regime \in {"ELEVATED", "HIGH"} /\ inp.hy_oas_20d_change > 30
            THEN 1 ELSE 0)

CrisisActions ==
    << "CLOSE all naked short vol positions immediately",
       "CLOSE all positions if VIX > 35 [GS Vol Vitals]",
       "ONLY defined-risk spreads allowed (5-10 delta, 14-21 DTE)",
       "Position size: 25% of baseline or FLAT",
       "Activate tail hedges if not already on",
       "Monitor for VIX peak (avg duration 2-4 weeks, avg peak ~45)" >>

LiquidityActions ==
    << "REDUCE all positions by 25-50%",
       "NO new naked short vol positions",
       "Tighten stops on existing positions",
       "Begin adding tail hedges (VIX call spreads)",
       "Monitor: if persists >10 days, move to crisis protocol" >>

build_actions(vol_regime, trend, event_active, vol_unstable) ==
    ( CASE vol_regime = "VERY_LOW" ->
             << "Maximize premium selling at full size",
                "Cheap convexity available - consider tail hedges" >>
        [] vol_regime = "LOW" ->
             << "Full premium selling allowed",
                "Begin building convexity positions" >>
        [] vol_regime = "NORMAL" ->
             << "Standard position sizes, balanced approach" >>
        [] vol_regime = "ELEVATED" ->
             << "Reduce selling to 50% size; defined-risk only for new trades",
                "Review all naked positions for rolling/closing" >>
        [] vol_regime = "HIGH" ->
             << "Only defined-risk spreads at 25% size",
                "Consider long convexity positions" >>
        [] vol_regime = "EXTREME" ->
             << "No premium selling",
                "Buy convexity only; activate crisis protocol" >>
        [] OTHER -> << >> )
    \o (IF event_active
        THEN << "Event window active - use event playbook" >> ELSE << >>)
    \o (IF vol_unstable
        THEN << "VVIX > 22: vol surface unstable, reduce sizes 25-50%" >>
        ELSE << >>)
    \o (IF trend \in {"STRONG_DOWNTREND", "DOWNTREND"}
        THEN << "Downtrend: favor bearish strategies, tighten upside" >>
        ELSE IF trend \in {"STRONG_UPTREND", "UPTREND"}
        THEN << "Uptrend: favor bullish strategies, maintain hedges" >>
        ELSE << >>)

\* RegimeResult, with the defaults of its fields.
RegimeResult(level, trend) ==
    [ regime             |-> level,
      trend              |-> trend,
      event_active       |-> FALSE,
      event_type         |-> "NONE",
      multi_event        |-> FALSE,
      vol_unstable       |-> FALSE,
      confidence         |-> "MEDIUM",
      confirming_signals |-> 0,
      actions            |-> << >> ]

classify(inp) ==
    LET crisis     == crisis_signals(inp)
        stress     == liquidity_stress(inp)
        trend      == classify_trend(inp)
        event_type == event_type_of(inp)
        vol_regime == vol_level(inp.vix)
        unstable   == inp.vvix > 22
        confirming == score_confidence(vol_regime, inp)
    IN  IF crisis >= 3
        THEN [ RegimeResult("CRISIS", trend) EXCEPT
                 !.confidence = IF crisis >= 5 THEN "HIGH" ELSE "MEDIUM",
                 !.confirming_signals = crisis,
                 !.actions = CrisisActions ]
        ELSE IF stress >= 2
        THEN [ RegimeResult("LIQUIDITY_STRESS", trend) EXCEPT
                 !.confidence = "MEDIUM",
                 !.confirming_signals = stress,
                 !.actions = LiquidityActions ]
        ELSE [ RegimeResult(vol_regime, trend) EXCEPT
                 !.event_active = event_type # "NONE",
                 !.event_type = event_type,
                 !.multi_event = inp.events_next_5d >= 2,
                 !.vol_unstable = unstable,
                 !.confidence = IF confirming >= 3 THEN "HIGH"
                                ELSE IF confirming >= 2 THEN "MEDIUM"
                                ELSE "LOW",
                 !.confirming_signals = confirming,
                 !.actions = build_actions(vol_regime, trend,
                                           event_type # "NONE", unstable) ]

(***************************************************************************)
(* Part III.  StrategySelector.select over the StrategyUniverse catalog    *)
(*                                                                         *)
(* An optional field of a template is a set: {} for None, {v} for v.       *)
(* base_dte is {} for the event-linked (string) entries.  win_rate and     *)
(* sharpe_hist are in ten-thousandths.  Scores are in hundredths, the      *)
(* unit to which _score rounds them; size_multiplier is in hundredths.     *)
(***************************************************************************)

TemplateNames ==
    << "cash_secured_put", "put_credit_spread", "short_strangle",
       "iron_condor", "covered_call", "calendar_spread_short_front",
       "put_debit_spread", "call_debit_spread", "long_straddle",
       "put_ladder_1x2", "vix_call_spread", "vix_collar_zero_cost",
       "scheduled_convexity", "tail_delta_pillar", "tail_gamma_pillar",
       "tail_vega_pillar", "dispersion_long", "variance_swap_ko",
       "sector_iv_rv" >>

TEMPLATES ==
    "cash_secured_put" :>
      [ family |-> "short_premium", objective |-> "income",
        legs |-> 1, base_dte |-> {37},
        regime_allowed |-> {"VERY_LOW", "LOW", "NORMAL", "ELEVATED"},
        regime_excluded |-> {"HIGH", "EXTREME", "CRISIS"},
        event_block |-> TRUE, event_required |-> FALSE,
        iv_rank_min |-> {}, iv_rank_max |-> {}, vix_max |-> {},
        win_rate |-> {7400}, sharpe_hist |-> {5000} ]
    @@ "put_credit_spread" :>
      [ family |-> "short_premium", objective |-> "income",
        legs |-> 2, base_dte |-> {37},
        regime_allowed |-> {"VERY_LOW", "LOW", "NORMAL", "ELEVATED", "HIGH"},
        regime_excluded |-> {"CRISIS"},
        event_block |-> TRUE, event_required |-> FALSE,
        iv_rank_min |-> {}, iv_rank_max |-> {}, vix_max |-> {},
        win_rate |-> {}, sharpe_hist |-> {} ]
    @@ "short_strangle" :>
      [ family |-> "short_premium", objective |-> "income",
        legs |-> 2, base_dte |-> {37},
        regime_allowed |-> {"LOW", "NORMAL"},
        regime_excluded |-> {"ELEVATED", "HIGH", "EXTREME", "CRISIS"},
        event_block |-> TRUE, event_required |-> FALSE,
        iv_rank_min |-> {50}, iv_rank_max |-> {}, vix_max |-> {},
        win_rate |-> {}, sharpe_hist |-> {} ]
    @@ "iron_condor" :>
      [ family |-> "short_premium", objective |-> "income",
        legs |-> 4, base_dte |-> {37},
        regime_allowed |-> {"LOW", "NORMAL", "ELEVATED"},
        regime_excluded |-> {"HIGH", "EXTREME", "CRISIS"},
        event_block |-> TRUE, event_required |-> FALSE,
        iv_rank_min |-> {}, iv_rank_max |-> {}, vix_max |-> {},
        win_rate |-> {}, sharpe_hist |-> {} ]
    @@ "covered_call" :>
      [ family |-> "short_premium", objective |-> "income",
        legs |-> 1, base_dte |-> {30},
        regime_allowed |-> {"VERY_LOW", "LOW", "NORMAL", "ELEVATED"},
        regime_excluded |-> {"CRISIS"},
        event_block |-> FALSE, event_required |-> FALSE,
        iv_rank_min |-> {}, iv_rank_max |-> {}, vix_max |-> {},
        win_rate |-> {}, sharpe_hist |-> {7600} ]
    @@ "calendar_spread_short_front" :>
      [ family |-> "short_premium", objective |-> "event_harvest",
        legs |-> 2, base_dte |-> {},
        regime_allowed |-> {"ALL"},
        regime_excluded |-> {},
        event_block |-> FALSE, event_required |-> TRUE,
        iv_rank_min |-> {}, iv_rank_max |-> {}, vix_max |-> {},
        win_rate |-> {}, sharpe_hist |-> {} ]
    @@ "put_debit_spread" :>
      [ family |-> "long_premium", objective |-> "directional_bearish",
        legs |-> 2, base_dte |-> {52},
        regime_allowed |-> {"ELEVATED", "HIGH", "NORMAL"},
        regime_excluded |-> {},
        event_block |-> FALSE, event_required |-> FALSE,
        iv_rank_min |-> {}, iv_rank_max |-> {}, vix_max |-> {},
        win_rate |-> {}, sharpe_hist |-> {} ]
    @@ "call_debit_spread" :>
      [ family |-> "long_premium", objective |-> "directional_bullish",
        legs |-> 2, base_dte |-> {52},
        regime_allowed |-> {"VERY_LOW", "LOW", "NORMAL"},
        regime_excluded |-> {},
        event_block |-> FALSE, event_required |-> FALSE,
        iv_rank_min |-> {}, iv_rank_max |-> {}, vix_max |-> {},
        win_rate |-> {}, sharpe_hist |-> {} ]
    @@ "long_straddle" :>
      [ family |-> "long_premium", objective |-> "event_vol",
        legs |-> 2, base_dte |-> {},
        regime_allowed |-> {"LOW", "NORMAL"},
        regime_excluded |-> {},
        event_block |-> FALSE, event_required |-> TRUE,
        iv_rank_min |-> {}, iv_rank_max |-> {30}, vix_max |-> {},
        win_rate |-> {}, sharpe_hist |-> {} ]
    @@ "put_ladder_1x2" :>
      [ family |-> "hedging", objective |-> "portfolio_hedge",
        legs |-> 3, base_dte |-> {75},
        regime_allowed |-> {"ELEVATED", "HIGH"},
        regime_excluded |-> {},
        event_block |-> FALSE, event_required |-> FALSE,
        iv_rank_min |-> {}, iv_rank_max |-> {}, vix_max |-> {},
        win_rate |-> {}, sharpe_hist |-> {} ]
    @@ "vix_call_spread" :>
      [ family |-> "hedging", objective |-> "tail_hedge",
        legs |-> 2, base_dte |-> {45},
        regime_allowed |-> {"LOW", "NORMAL"},
        regime_excluded |-> {},
        event_block |-> FALSE, event_required |-> FALSE,
        iv_rank_min |-> {}, iv_rank_max |-> {}, vix_max |-> {20},
        win_rate |-> {}, sharpe_hist |-> {} ]
    @@ "vix_collar_zero_cost" :>
      [ family |-> "hedging", objective |-> "portfolio_hedge",
        legs |-> 3, base_dte |-> {37},
        regime_allowed |-> {"NORMAL"},
        regime_excluded |-> {},
        event_block |-> FALSE, event_required |-> FALSE,
        iv_rank_min |-> {}, iv_rank_max |-> {}, vix_max |-> {},
        win_rate |-> {}, sharpe_hist |-> {} ]
    @@ "scheduled_convexity" :>
      [ family |-> "hedging", objective |-> "systematic_tail",
        legs |-> 1, base_dte |-> {37},
        regime_allowed |-> {"ALL"},
        regime_excluded |-> {},
        event_block |-> FALSE, event_required |-> FALSE,
        iv_rank_min |-> {}, iv_rank_max |-> {}, vix_max |-> {},
        win_rate |-> {}, sharpe_hist |-> {} ]
    @@ "tail_delta_pillar" :>
      [ family |-> "tail_trading", objective |-> "spot_recovery",
        legs |-> 2, base_dte |-> {37},
        regime_allowed |-> {"ELEVATED", "HIGH", "CRISIS"},
        regime_excluded |-> {},
        event_block |-> FALSE, event_required |-> FALSE,
        iv_rank_min |-> {}, iv_rank_max |-> {}, vix_max |-> {},
        win_rate |-> {}, sharpe_hist |-> {} ]
    @@ "tail_gamma_pillar" :>
      [ family |-> "tail_trading", objective |-> "realized_vol_capture",
        legs |-> 1, base_dte |-> {37},
        regime_allowed |-> {"ELEVATED", "HIGH", "CRISIS"},
        regime_excluded |-> {},
        event_block |-> FALSE, event_required |-> FALSE,
        iv_rank_min |-> {}, iv_rank_max |-> {}, vix_max |-> {},
        win_rate |-> {6220}, sharpe_hist |-> {} ]
    @@ "tail_vega_pillar" :>
      [ family |-> "tail_trading", objective |-> "vix_normalization",
        legs |-> 3, base_dte |-> {37},
        regime_allowed |-> {"ELEVATED", "HIGH", "CRISIS"},
        regime_excluded |-> {},
        event_block |-> FALSE, event_required |-> FALSE,
        iv_rank_min |-> {}, iv_rank_max |-> {}, vix_max |-> {},
        win_rate |-> {}, sharpe_hist |-> {} ]
    @@ "dispersion_long" :>
      [ family |-> "relative_value", objective |-> "correlation_RV",
        legs |-> 2, base_dte |-> {90},
        regime_allowed |-> {"NORMAL", "LOW"},
        regime_excluded |-> {},
        event_block |-> FALSE, event_required |-> FALSE,
        iv_rank_min |-> {}, iv_rank_max |-> {}, vix_max |-> {},
        win_rate |-> {5529}, sharpe_hist |-> {} ]
    @@ "variance_swap_ko" :>
      [ family |-> "short_premium", objective |-> "carry_with_protection",
        legs |-> 1, base_dte |-> {60},
        regime_allowed |-> {"LOW", "NORMAL"},
        regime_excluded |-> {},
        event_block |-> FALSE, event_required |-> FALSE,
        iv_rank_min |-> {}, iv_rank_max |-> {}, vix_max |-> {},
        win_rate |-> {}, sharpe_hist |-> {} ]
    @@ "sector_iv_rv" :>
      [ family |-> "relative_value", objective |-> "sector_mean_reversion",
        legs |-> 2, base_dte |-> {60},
        regime_allowed |-> {"NORMAL", "LOW"},
        regime_excluded |-> {},
        event_block |-> FALSE, event_required |-> FALSE,
        iv_rank_min |-> {}, iv_rank_max |-> {}, vix_max |-> {},
        win_rate |-> {}, sharpe_hist |-> {} ]

Min(S) == CHOOSE x \in S : \A y \in S : x <= y

Max(S) == CHOOSE x \in S : \A y \in S : x >= y

\* `opt or d` for an optional field.
OrElse(opt, d) == IF opt = {} THEN d ELSE CHOOSE v \in opt : TRUE

\* round(): n/d to the nearest integer, ties to the even one.
RoundHalfEven(n, d) ==
    LET q == n \div d
        r == n % d
    IN  IF 2 * r > d \/ (2 * r = d /\ q % 2 = 1) THEN q + 1 ELSE q

GateCheckResult(name, passed) == [ gate_name |-> name, passed |-> passed ]

check_gates(strategy, reg, inp) ==
    LET short   == strategy.family = "short_premium"
        pct     == inp.vix_percentile_1y
        blocked ==
            \/ /\ reg.event_type \in {"FOMC", "CPI", "NFP"}
               /\ Min({inp.days_to_fomc, inp.days_to_cpi, inp.days_to_nfp}) <= 10
            \/ /\ reg.event_type = "EARNINGS"
               /\ inp.days_to_earnings <= 5
        compat  ==
            IF "ALL" \in strategy.regime_allowed
            THEN reg.regime \notin strategy.regime_excluded
            ELSE /\ reg.regime \in strategy.regime_allowed
                 /\ reg.regime \notin strategy.regime_excluded
    IN  (IF short
         THEN << GateCheckResult("G1_iv_rank", pct >= 25) >> ELSE << >>)
        \o (IF strategy.event_block /\ reg.event_active
            THEN << GateCheckResult("G2_event_avoidance", ~blocked) >>
            ELSE << >>)
        \o << GateCheckResult("G3_liquidity", inp.spx_bid_ask <= 300) >>
        \o (IF short
            THEN << GateCheckResult("G4_theta_gamma", TRUE) >> ELSE << >>)
        \o << GateCheckResult("G5_regime_compat", compat) >>
        \o (IF reg.vol_unstable /\ short
            THEN << GateCheckResult("G6_vvix_stability", strategy.legs >= 2) >>
            ELSE << >>)
        \o (IF strategy.iv_rank_min # {}
            THEN << GateCheckResult("G7_iv_rank_min",
                                    \A m \in strategy.iv_rank_min : pct >= m) >>
            ELSE << >>)
        \o (IF strategy.iv_rank_max # {}
            THEN << GateCheckResult("G7_iv_rank_max",
                                    \A m \in strategy.iv_rank_max : pct <= m) >>
            ELSE << >>)
        \o (IF strategy.vix_max # {}
            THEN << GateCheckResult("G7_vix_max",
                                    \A m \in strategy.vix_max : inp.vix <= m) >>
            ELSE << >>)

all_passed(gates) == \A i \in DOMAIN gates : gates[i].passed

matches_objective(strategy, obj) ==
    CASE obj = "income"         -> strategy.family = "short_premium"
      [] obj = "directional"    -> strategy.objective \in
                                     { "directional_bullish",
                                       "directional_bearish",
                                       "spot_recovery" }
      [] obj = "hedging"        -> strategy.family = "hedging"
      [] obj = "event"          -> strategy.event_required
      [] obj = "relative_value" -> strategy.family = "relative_value"
      [] obj = "tail"           -> strategy.family = "tail_trading"
      [] OTHER                  -> TRUE

\* round(total, 2) where the six weighted terms add up to a decimal that
\* lies exactly halfway between two hundredths.  The weights 0.20, 0.15
\* and 0.10 and most of the operands are not binary fractions, so the
\* double sum lies just above or just below the halfway point and round()
\* follows it.  The halfway case needs the robustness of a template
\* without win_rate and sharpe_hist (4.3) and an edge with an even number
\* of tenths; TotalTiesUp lists, for the snapshots of this model, the
\* operands << edge (tenths), carry_fit, tail, liquid, complexity >> whose
\* double sum lies above it.
TotalTiesUp ==
    { << -50, 6, 2, 0, 10 >>, << -50, 6, 2, 5, 10 >>, << -50, 6, 2, 10, 10 >>,
      << -50, 6, 9, 0, 3 >>, << -50, 6, 9, 3, 3 >>, << -50, 6, 9, 5, 3 >>,
      << -50, 6, 9, 8, 3 >>, << -50, 6, 9, 10, 3 >>, << -50, 8, 3, 0, 10 >>,
      << -50, 8, 3, 3, 10 >>, << -50, 8, 3, 5, 10 >>, << -50, 8, 3, 8, 10 >>,
      << -50, 8, 3, 10, 10 >>, << -50, 8, 7, 0, 8 >>, << -50, 8, 7, 3, 8 >>,
      << -50, 8, 7, 5, 8 >>, << -50, 8, 7, 8, 8 >>, << -50, 8, 7, 10, 8 >>,
      << -50, 8, 9, 0, 3 >>, << -50, 8, 9, 3, 3 >>, << -50, 8, 9, 5, 3 >>,
      << -50, 8, 9, 8, 3 >>, << -50, 8, 9, 10, 3 >>, << -26, 5, 7, 0, 8 >>,
      << -26, 5, 7, 3, 8 >>, << -26, 5, 7, 5, 8 >>, << -26, 5, 7, 8, 8 >>,
      << -26, 5, 7, 10, 8 >>, << -26, 6, 2, 0, 10 >>, << -26, 6, 2, 3, 10 >>,
      << -26, 6, 2, 5, 10 >>, << -26, 6, 2, 8, 10 >>, << -26, 6, 2, 10, 10 >>,
      << -26, 6, 7, 0, 8 >>, << -26, 6, 7, 3, 8 >>, << -26, 6, 7, 5, 8 >>,
      << -26, 6, 7, 8, 8 >>, << -26, 6, 7, 10, 8 >>, << -26, 8, 3, 0, 10 >>,
      << -26, 8, 3, 3, 10 >>, << -26, 8, 3, 5, 10 >>, << -26, 8, 3, 8, 10 >>,
      << -26, 8, 3, 10, 10 >>, << -26, 8, 9, 0, 3 >>, << -26, 8, 9, 3, 3 >>,
      << -26, 8, 9, 5, 3 >>, << -26, 8, 9, 8, 3 >>, << -20, 6, 2, 0, 10 >>,
      << -20, 6, 2, 5, 10 >>, << -20, 6, 2, 10, 10 >>, << -20, 6, 7, 0, 8 >>,
      << -20, 6, 7, 3, 8 >>, << -20, 6, 7, 5, 8 >>, << -20, 6, 7, 8, 8 >>,
      << -20, 6, 7, 10, 8 >>, << -20, 6, 9, 0, 3 >>, << -20, 6, 9, 3, 3 >>,
      << -20, 6, 9, 5, 3 >>, << -20, 6, 9, 8, 3 >>, << -20, 8, 3, 0, 10 >>,
      << -20, 8, 3, 3, 10 >>, << -20, 8, 3, 5, 10 >>, << -20, 8, 3, 8, 10 >>,
      << -20, 8, 3, 10, 10 >>, << -20, 8, 7, 0, 8 >>, << -20, 8, 7, 3, 8 >>,
      << -20, 8, 7, 5, 8 >>, << -20, 8, 7, 8, 8 >>, << -20, 8, 9, 0, 3 >>,
      << -20, 8, 9, 3, 3 >>, << -20, 8, 9, 8, 3 >>, << 0, 5, 7, 0, 5 >>,
      << 0, 5, 7, 0, 8 >>, << 0, 5, 7, 3, 5 >>, << 0, 5, 7, 3, 8 >>,
      << 0, 5, 7, 5, 8 >>, << 0, 5, 7, 8, 5 >>, << 0, 5, 7, 8, 8 >>,
      << 0, 5, 8, 0, 10 >>, << 0, 5, 8, 5, 10 >>, << 0, 5, 8, 10, 10 >>,
      << 0, 6, 2, 0, 10 >>, << 0, 6, 2, 5, 10 >>, << 0, 6, 2, 10, 10 >>,
      << 0, 6, 7, 0, 8 >>, << 0, 6, 7, 3, 8 >>, << 0, 6, 7, 5, 8 >>,
      << 0, 6, 7, 8, 8 >>, << 0, 6, 7, 10, 8 >>, << 0, 6, 9, 0, 3 >>,
      << 0, 6, 9, 3, 3 >>, << 0, 6, 9, 8, 3 >>, << 0, 8, 3, 0, 10 >>,
      << 0, 8, 3, 3, 10 >>, << 0, 8, 3, 5, 10 >>, << 0, 8, 3, 8, 10 >>,
      << 0, 8, 3, 10, 10 >>, << 0, 8, 7, 0, 8 >>, << 0, 8, 7, 3, 8 >>,
      << 0, 8, 7, 8, 8 >>, << 24, 5, 7, 0, 8 >>, << 24, 5, 7, 3, 8 >>,
      << 24, 5, 7, 8, 8 >>, << 24, 6, 2, 0, 10 >>, << 24, 6, 2, 3, 10 >>,
      << 24, 6, 2, 5, 10 >>, << 24, 6, 2, 8, 10 >>, << 24, 6, 2, 10, 10 >>,
      << 24, 6, 7, 0, 8 >>, << 24, 6, 7, 3, 8 >>, << 24, 6, 7, 5, 8 >>,
      << 24, 6, 7, 8, 8 >>, << 24, 6, 7, 10, 8 >>, << 24, 8, 3, 0, 10 >>,
      << 24, 8, 3, 3, 10 >>, << 24, 8, 3, 5, 10 >>, << 24, 8, 3, 8, 10 >>,
      << 24, 8, 3, 10, 10 >>, << 30, 5, 7, 0, 8 >>, << 30, 5, 7, 3, 8 >>,
      << 30, 5, 7, 8, 8 >>, << 30, 6, 2, 0, 10 >>, << 30, 6, 2, 5, 10 >>,
      << 30, 6, 2, 10, 10 >>, << 30, 6, 7, 0, 8 >>, << 30, 6, 7, 3, 8 >>,
      << 30, 6, 7, 5, 8 >>, << 30, 6, 7, 8, 8 >>, << 30, 6, 7, 10, 8 >>,
      << 30, 8, 3, 0, 10 >>, << 30, 8, 3, 3, 10 >>, << 30, 8, 3, 5, 10 >>,
      << 30, 8, 3, 8, 10 >>, << 30, 8, 3, 10, 10 >>, << 50, 5, 8, 0, 10 >>,
      << 50, 5, 8, 5, 10 >>, << 50, 5, 8, 10, 10 >>, << 50, 6, 2, 0, 10 >>,
      << 50, 6, 2, 5, 10 >>, << 50, 6, 2, 10, 10 >>, << 50, 6, 3, 8, 10 >>,
      << 54, 6, 2, 0, 10 >>, << 54, 6, 2, 3, 10 >>, << 54, 6, 2, 5, 10 >>,
      << 54, 6, 2, 8, 10 >>, << 54, 6, 2, 10, 10 >>, << 54, 8, 3, 0, 10 >>,
      << 54, 8, 3, 3, 10 >>, << 54, 8, 3, 5, 10 >>, << 54, 8, 3, 8, 10 >>,
      << 54, 8, 3, 10, 10 >>, << 58, 5, 8, 8, 10 >>, << 60, 6, 2, 0, 10 >>,
      << 60, 6, 2, 5, 10 >>, << 60, 6, 2, 10, 10 >>, << 62, 8, 3, 8, 10 >>,
      << 70, 6, 3, 8, 10 >>, << 80, 6, 2, 0, 10 >>, << 80, 6, 2, 5, 10 >>,
      << 80, 6, 2, 10, 10 >>, << 80, 6, 3, 8, 10 >>, << 100, 6, 2, 0, 10 >>,
      << 100, 6, 2, 5, 10 >>, << 100, 6, 2, 10, 10 >> }

round_total(total, operands) ==
    LET q == total \div 10000
        r == total % 10000
    IN  IF r > 5000 \/ (r = 5000 /\ operands \in TotalTiesUp)
        THEN q + 1 ELSE q

\* The arguments _score hands to StrategyScore: each dimension and the
\* weighted total, rounded to 2 decimals.
score(strategy, reg, inp) ==
    LET pct    == inp.vix_percentile_1y
        legs   == strategy.legs
        short  == strategy.family = "short_premium"
        \* edge in tenths
        edge   == IF short
                  THEN Min({ pct + Min({inp.iv_rv_spread, 30}), 100 })
                  ELSE Max({ 100 - pct, 0 })
        carry  == IF strategy.objective \in {"income", "carry_with_protection"}
                  THEN IF reg.regime \in {"ELEVATED", "HIGH"} THEN 6 ELSE 8
                  ELSE IF strategy.objective \in
                            {"tail_hedge", "systematic_tail", "event_vol"}
                  THEN IF pct < 30 THEN 8 ELSE 5
                  ELSE 5
        tail   == IF legs >= 4 THEN 9
                  ELSE IF legs >= 2 THEN 7
                  ELSE IF legs = 1
                  THEN IF short
                       THEN IF reg.regime = "ELEVATED" THEN 2 ELSE 3
                       ELSE 8
                  ELSE 5
        \* robust in ten-thousandths
        robust == Min({ 6 * OrElse(strategy.win_rate, 5500)
                        + 2 * OrElse(strategy.sharpe_hist, 5000), 100000 })
        liquid == IF inp.spx_bid_ask < 50 THEN 10
                  ELSE IF inp.spx_bid_ask < 100 THEN 8
                  ELSE IF inp.spx_bid_ask < 200 THEN 5
                  ELSE IF inp.spx_bid_ask < 300 THEN 3
                  ELSE 0
        complexity == IF legs = 1 THEN 10
                      ELSE IF legs = 2 THEN 8
                      ELSE IF legs = 3 THEN 5
                      ELSE 3
        \* total in millionths
        total  == 25 * (1000 * edge) + 20 * (10000 * carry)
                  + 20 * (10000 * tail) + 15 * robust
                  + 10 * (10000 * liquid) + 10 * (10000 * complexity)
    IN  [ total      |-> round_total(total, << edge, carry, tail, liquid,
                                              complexity >>),
          edge       |-> 10 * edge,
          carry_fit  |-> 100 * carry,
          tail_risk  |-> 100 * tail,
          robustness |-> RoundHalfEven(robust, 100),
          liquidity  |-> 100 * liquid,
          complexity |-> 100 * complexity ]

\* StrategyScore accepts its arguments: every field is declared ge=0, le=10.
StrategyScore(sc) ==
    \A f \in DOMAIN sc : 0 <= sc[f] /\ sc[f] <= 1000

\* Regime -> << sell_premium_mult, buy_premium_mult >>, in hundredths.
SIZE_MULTIPLIER ==
    [ r \in { "VERY_LOW", "LOW", "NORMAL", "ELEVATED", "HIGH", "EXTREME",
              "CRISIS", "LIQUIDITY_STRESS" } |->
        CASE r = "VERY_LOW"         -> << 100, 50 >>
          [] r = "LOW"              -> << 100, 75 >>
          [] r = "NORMAL"           -> << 75, 100 >>
          [] r = "ELEVATED"         -> << 50, 100 >>
          [] r = "HIGH"             -> << 25, 100 >>
          [] r = "EXTREME"          -> << 0, 100 >>
          [] r = "CRISIS"           -> << 0, 100 >>
          [] r = "LIQUIDITY_STRESS" -> << 25, 75 >> ]

\* In hundredths.
vvix_adjustment(vvix) ==
    IF vvix <= 18 THEN 100
    ELSE IF vvix <= 22 THEN 85
    ELSE IF vvix <= 28 THEN 65
    ELSE 50

\* round(mult, 2) of the product mult * adj * conf of three hundredths.
\* The factors 0.85 and 0.65 are not binary fractions: the double nearest
\* to 0.85 lies below it and the one nearest to 0.65 above it, which
\* decides the products that fall halfway between two hundredths
\* (0.425 -> 0.42, 0.325 -> 0.33); the other halfway products are exact
\* and go to the even neighbour.
round_mult(mult, adj, conf) ==
    LET u == mult * adj * conf
        q == u \div 10000
        r == u % 10000
    IN  IF r > 5000 THEN q + 1
        ELSE IF r < 5000 THEN q
        ELSE IF adj = 85 THEN q
        ELSE IF adj = 65 THEN q + 1
        ELSE IF q % 2 = 1 THEN q + 1 ELSE q

\* The dte and size_multiplier of StrategyParams.
parameterize(strategy, reg, inp) ==
    LET event_days == Min({ inp.days_to_fomc, inp.days_to_cpi,
                            inp.days_to_nfp, inp.days_to_earnings })
        dte  == IF strategy.base_dte = {} THEN 37
                ELSE IF reg.event_active /\ ~strategy.event_required
                THEN Max({ event_days + 10, OrElse(strategy.base_dte, 37) })
                ELSE OrElse(strategy.base_dte, 37)
        mult == IF strategy.family = "short_premium"
                THEN SIZE_MULTIPLIER[reg.regime][1]
                ELSE SIZE_MULTIPLIER[reg.regime][2]
    IN  [ dte |-> dte,
          size_multiplier |->
              round_mult(mult, vvix_adjustment(inp.vvix),
                         IF reg.confidence = "LOW" THEN 50 ELSE 100) ]

\* round(mult * adj * conf, 4) of three hundredths, in ten-thousandths.
\* The halfway products all carry the factor 0.85 or 0.65, whose doubles
\* lie below and above the decimal (0.31875 -> 0.3187, 0.24375 -> 0.2438).
round_final(mult, adj, conf) ==
    LET u == mult * adj * conf
        q == u \div 100
        r == u % 100
    IN  IF r > 50 THEN q + 1
        ELSE IF r < 50 THEN q
        ELSE IF adj = 85 THEN q
        ELSE IF adj = 65 THEN q + 1
        ELSE IF q % 2 = 1 THEN q + 1 ELSE q

\* The multipliers of the PositionSizeResult of PositionSizer.calculate,
\* in ten-thousandths.
calculate(reg, inp, is_sell_premium) ==
    LET sell_mult  == SIZE_MULTIPLIER[reg.regime][1]
        buy_mult   == SIZE_MULTIPLIER[reg.regime][2]
        vvix_adj   == vvix_adjustment(inp.vvix)
        conf_adj   == IF reg.confidence = "LOW" THEN 50 ELSE 100
        final_sell == round_final(sell_mult, vvix_adj, conf_adj)
        final_buy  == round_final(buy_mult, vvix_adj, conf_adj)
    IN  [ size_multiplier |-> IF is_sell_premium THEN final_sell ELSE final_buy,
          final_sell      |-> final_sell,
          final_buy       |-> final_buy ]

\* The names of the templates that reach _score, in catalog order.
reaching_score(reg, inp, obj) ==
    SelectSeq(TemplateNames,
              LAMBDA n : /\ all_passed(check_gates(TEMPLATES[n], reg, inp))
                         /\ matches_objective(TEMPLATES[n], obj))

StrategyCandidate(name, reg, inp) ==
    [ name   |-> name,
      scores |-> score(TEMPLATES[name], reg, inp),
      params |-> parameterize(TEMPLATES[name], reg, inp),
      gates  |-> check_gates(TEMPLATES[name], reg, inp) ]

\* One step of candidates.sort(key=total, reverse=True): c goes behind the
\* candidates whose total is at least its own, so equal totals keep their
\* catalog order.
insert_ascending(sorted, c) ==
    LET k == Cardinality({ i \in DOMAIN sorted :
                             sorted[i].scores.total <= c.scores.total })
    IN  SubSeq(sorted, 1, k) \o << c >> \o SubSeq(sorted, k + 1, Len(sorted))

insert_sorted(sorted, c) ==
    LET k == Cardinality({ i \in DOMAIN sorted :
                             sorted[i].scores.total >= c.scores.total })
    IN  SubSeq(sorted, 1, k) \o << c >> \o SubSeq(sorted, k + 1, Len(sorted))

RECURSIVE sort_candidates(_)
sort_candidates(cands) ==
    IF cands = << >> THEN << >>
    ELSE insert_sorted(sort_candidates(SubSeq(cands, 1, Len(cands) - 1)),
                       cands[Len(cands)])

StrategyRecommendation(kind, strategies, note) ==
    [ recommendation |-> kind, strategies |-> strategies, note |-> note ]

\* select raised the ValidationError of StrategyScore.
RaisedValidationError ==
    StrategyRecommendation("ValidationError", << >>, "")

\* The scores _score computed during select, in catalog order, up to the
\* first one StrategyScore rejects.
scores_computed(reg, inp, obj) ==
    LET names  == reaching_score(reg, inp, obj)
        scores == [ i \in DOMAIN names |-> score(TEMPLATES[names[i]], reg, inp) ]
        bad    == { i \in DOMAIN names : ~StrategyScore(scores[i]) }
    IN  IF bad = {} THEN scores ELSE SubSeq(scores, 1, Min(bad))

select_unfiltered(reg, inp, obj) ==
    LET names      == reaching_score(reg, inp, obj)
        candidates == [ i \in DOMAIN names |->
                          StrategyCandidate(names[i], reg, inp) ]
        sorted     == sort_candidates(candidates)
        top        == SubSeq(sorted, 1, Min({3, Len(sorted)}))
        defined    == SelectSeq(top, LAMBDA c : TEMPLATES[c.name].legs >= 2)
    IN  IF \E i \in DOMAIN candidates : ~StrategyScore(candidates[i].scores)
        THEN RaisedValidationError
        ELSE IF Len(top) = 0
        THEN StrategyRecommendation("NO_TRADE", << >>,
                 "No strategy passes all filters in current regime")
        ELSE IF top[1].scores.total < 500
        THEN StrategyRecommendation("LOW_CONVICTION", top,
                 "Reduce size by 50% or wait for better setup")
        ELSE IF reg.confidence = "LOW"
        THEN IF defined = << >>
             THEN StrategyRecommendation("REGIME_UNCERTAIN", << >>,
                      "Mixed signals; no defined-risk strategies available. WAIT.")
             ELSE StrategyRecommendation("TRADE_CAUTIOUS", top,
                      "Low confidence regime - defined risk only, 50% size")
        ELSE StrategyRecommendation("TRADE", top, "")

select(reg, inp, obj) ==
    LET names      == reaching_score(reg, inp, obj)
        candidates == [ i \in DOMAIN names |->
                          StrategyCandidate(names[i], reg, inp) ]
        sorted     == sort_candidates(candidates)
        top        == SubSeq(sorted, 1, Min({3, Len(sorted)}))
        defined    == SelectSeq(top, LAMBDA c : TEMPLATES[c.name].legs >= 2)
    IN  IF \E i \in DOMAIN candidates : ~StrategyScore(candidates[i].scores)
        THEN RaisedValidationError
        ELSE IF Len(top) = 0
        THEN StrategyRecommendation("NO_TRADE", << >>,
                 "No strategy passes all filters in current regime")
        ELSE IF top[1].scores.total < 500
        THEN StrategyRecommendation("LOW_CONVICTION", top,
                 "Reduce size by 50% or wait for better setup")
        ELSE IF reg.confidence = "LOW"
        THEN IF defined = << >>
             THEN StrategyRecommendation("REGIME_UNCERTAIN", << >>,
                      "Mixed signals; no defined-risk strategies available. WAIT.")
             ELSE StrategyRecommendation("TRADE_CAUTIOUS", defined,
                      "Low confidence regime - defined risk only, 50% size")
        ELSE StrategyRecommendation("TRADE", top, "")

(***************************************************************************)
(* classify and select applied in the order get_recommendations calls      *)
(* them: a snapshot is classified and the regime is handed to select with  *)
(* the caller's objective.  The snapshots are drawn from five families,    *)
(* each varying the fields one stage reads around its thresholds.          *)
(***************************************************************************)

\* Crisis signals, liquidity indicators and VIX levels.
RegimeInputs ==
    { [ DefaultInputs EXCEPT
          !.vix = v, !.vix_1d_change = d, !.hy_oas_20d_change = h,
          !.ts_1m_3m = t, !.bid_ask_widening = w, !.spx_bid_ask = b,
          !.emini_depth = e ] :
        v \in {11, 12, 14, 15, 19, 20, 24, 25, 30, 31, 35, 36},
        d \in {5, 6}, h \in {30, 31, 50, 51}, t \in {-5, 0},
        w \in {15, 16, 20, 21}, b \in {50, 70}, e \in {899, 900} }

\* Worked scenario 2 of the specification: elevated vol, uptrend, stable.
Scenario2 ==
    [ DefaultInputs EXCEPT
        !.vix = 22, !.spx_level = 110, !.breadth_pct_above_50dma = 65,
        !.vvix = 20, !.ts_1m_3m = 15, !.skew_pctile_1y = 55,
        !.iv_rv_spread = 40, !.hy_oas_20d_change = 10 ]

\* Trend and VVIX instability around scenario 2.
TrendInputs ==
    { [ Scenario2 EXCEPT
          !.spx_level = s, !.breadth_pct_above_50dma = b, !.vvix = x ] :
        s \in {90, 102, 105, 110}, b \in {39, 40, 50, 60, 61, 65},
        x \in {18, 20, 22, 23, 28, 29} }

\* The confirming signals around scenario 2.
ConfidenceInputs ==
    { [ Scenario2 EXCEPT
          !.vix = v, !.iv_rv_spread = i, !.put_skew_25d_1m = k,
          !.ts_1m_3m = t, !.hy_oas_20d_change = h ] :
        v \in {11, 14, 19, 22, 27, 31}, i \in {19, 20, 30, 40},
        k \in {39, 40, 50, 60, 61}, t \in {0, 9, 15}, h \in {10, 20, 30, 31} }

\* The event calendar.
EventInputs ==
    { [ DefaultInputs EXCEPT
          !.vix = v, !.days_to_fomc = f, !.days_to_cpi = c,
          !.days_to_nfp = n, !.days_to_earnings = e, !.events_next_5d = x ] :
        v \in {14, 22}, f \in {5, 6, 10, 11}, c \in {3, 4, 30}, n \in {3, 4},
        e \in {3, 4, 5, 6}, x \in {0, 1, 2} }

\* What the gates and the scoring read.
SelectorInputs ==
    { [ DefaultInputs EXCEPT
          !.vix = v, !.vix_percentile_1y = p, !.iv_rv_spread = i,
          !.spx_bid_ask = b, !.spx_bid_ask_20d_ma = b, !.vvix = x,
          !.ts_1m_3m = t, !.days_to_fomc = f ] :
        v \in {14, 19, 22}, p \in {0, 24, 25, 29, 30, 31, 49, 50, 100},
        i \in {-50, 0, 30}, b \in {40, 50, 100, 200, 300, 310},
        x \in {18, 23}, t \in {0, 15}, f \in {5, 30} }

\* A low-vol snapshot with one confirming signal, inside and outside an FOMC
\* window.
UncertainInputs ==
    { [ DefaultInputs EXCEPT
          !.vix = 13, !.vix_percentile_1y = 42, !.iv_rv_spread = 20,
          !.days_to_fomc = f ] : f \in {3, 30} }

Snapshots ==
    RegimeInputs \cup TrendInputs \cup ConfidenceInputs \cup EventInputs
    \cup SelectorInputs \cup UncertainInputs

Objectives ==
    { "income", "directional", "hedging", "event", "relative_value", "tail",
      "all", "carry" }

\* A snapshot and no result yet.
EngineInit ==
    /\ CacheInit
    /\ inputs \in Snapshots
    /\ regime = 0
    /\ objective = "income"
    /\ scored = << >>
    /\ reco = 0
    /\ phase = "collected"
    /\ RulesIdle
    /\ FacadeIdle
    /\ ProviderIdle

\* regime = classify(inputs)
Classify ==
    /\ phase = "collected"
    /\ regime' = classify(inputs)
    /\ phase' = "classified"
    /\ UNCHANGED << inputs, objective, scored, reco >>
    /\ UNCHANGED << cacheVars, rulesVars, facadeVars, providerVars >>

\* select(regime, inputs, objective)
Select(obj) ==
    /\ phase = "classified"
    /\ objective' = obj
    /\ scored' = scores_computed(regime, inputs, obj)
    /\ reco' = select(regime, inputs, obj)
    /\ phase' = "selected"
    /\ UNCHANGED << inputs, regime >>
    /\ UNCHANGED << cacheVars, rulesVars, facadeVars, providerVars >>

EngineNext ==
    \/ Classify
    \/ \E obj \in Objectives : Select(obj)

SpecEngine == EngineInit /\ [][EngineNext]_vars

(***************************************************************************)
(* Part IV.  AdjustmentEngine.evaluate and ExitEngine.evaluate             *)
(*                                                                         *)
(* A position is a mapping from field names to values; a field the caller  *)
(* left out is not in its domain.  Units: tested_breach_std in tenths,     *)
(* portfolio_delta_pct in hundredths, the P&L and premium fields and nav   *)
(* in dollars, vix_5d_change in VIX points.                                *)
(* A RuleEvaluation is modelled without its details text.                  *)
(***************************************************************************)

\* position.get(field, default)
get(pos, field, default) ==
    IF field \in DOMAIN pos THEN pos[field] ELSE default

abs(x) == IF x < 0 THEN -x ELSE x

\* The action texts of ADJUSTMENT_RULES.
ADJUSTMENT_RULES ==
    [ A1 |-> "Roll to next month (same delta) or close",
      A2 |-> "Close position regardless of P&L",
      A3 |-> "Roll strike further OTM and out in time",
      A4 |-> "Close tested side; leave untested as standalone if profitable. Do NOT double down.",
      A5 |-> "Add delta hedges via futures or ATM options",
      A6 |-> "Reduce all short vega by 50%. If VIX > 35: close ALL naked short vol.",
      A7 |-> "Roll or close calls before earnings",
      A8 |-> "Review ALL positions. Close any not appropriate for new regime.",
      A9 |-> "Close all dispersion trades. Review short vol positions for systemic risk." ]

\* The action texts of EXIT_RULES.
EXIT_RULES ==
    [ X1 |-> "Close. Set limit order at entry.",
      X2 |-> "Close (2:1 R/R achieved). For event trades: close within 24hrs post-event.",
      X3 |-> "Close. Expected recovery is negative beyond this point.",
      X4 |-> "Close. Re-evaluate thesis before re-entering.",
      X5 |-> "Close. Gamma acceleration makes position fundamentally different.",
      X6 |-> "Close ALL positions not appropriate for new regime immediately.",
      X7 |-> "Reduce exposure by 50%. No new trades today." ]

RuleEvaluation(rule_id, priority, action) ==
    [ rule_id |-> rule_id, triggered |-> TRUE, priority |-> priority,
      action |-> action ]

\* results.append(...) under the rule's condition.
append_if(cond, evaluation) ==
    IF cond THEN << evaluation >> ELSE << >>

\* dte = position.get("dte", 999)
position_dte_zero(pos) == get(pos, "dte", 0)

position_dte(pos) == get(pos, "dte", 999)

\* vix_5d_pct > 0.30, where vix_5d_pct is the 5-day change over the level
\* five days earlier, the divisor being at least 1, and 0 when vix is not
\* positive.
vix_5d_spike(inp) ==
    /\ inp.vix > 0
    /\ 10 * inp.vix_5d_change > 3 * Max({ inp.vix - inp.vix_5d_change, 1 })

\* previous_regime and previous_regime.regime != regime.regime
regime_changed_any(reg, prev) ==
    prev # {}

regime_changed(reg, prev) ==
    \E p \in prev : p.regime # reg.regime

\* AdjustmentEngine.evaluate: the triggered rules among A1..A9, in this order.
adjustment_evaluate(pos, reg, inp, prev) ==
    LET dte == position_dte(pos)
        current_delta == get(pos, "current_delta", 0)
        initial_delta == get(pos, "initial_delta", 15)
        portfolio_delta_pct == get(pos, "portfolio_delta_pct", 0)
    IN  append_if(dte <= 21 /\ dte > 7,
                  RuleEvaluation("A1", "HIGH", ADJUSTMENT_RULES.A1))
        \o append_if(dte <= 7 /\ ~get(pos, "is_0dte", FALSE),
                  RuleEvaluation("A2", "CRITICAL", ADJUSTMENT_RULES.A2))
        \o append_if(abs(current_delta) > 30 /\ abs(initial_delta) <= 20,
                  RuleEvaluation("A3", "HIGH", ADJUSTMENT_RULES.A3))
        \o append_if(/\ get(pos, "strategy", "None")
                          \in { "short_strangle", "iron_condor" }
                     /\ get(pos, "tested_breach_std", 0) > 10,
                  RuleEvaluation("A4", "HIGH", ADJUSTMENT_RULES.A4))
        \o append_if(abs(portfolio_delta_pct) > 15,
                  RuleEvaluation("A5", "HIGH", ADJUSTMENT_RULES.A5))
        \o append_if(inp.vix_1d_change > 5 \/ vix_5d_spike(inp),
                  RuleEvaluation("A6", "CRITICAL",
                      IF inp.vix > 35
                      THEN "CRITICAL: VIX > 35 - close ALL naked short vol immediately"
                      ELSE ADJUSTMENT_RULES.A6))
        \o append_if(get(pos, "is_covered_call", FALSE)
                       /\ inp.days_to_earnings <= 5,
                  RuleEvaluation("A7", "HIGH", ADJUSTMENT_RULES.A7))
        \o append_if(regime_changed(reg, prev),
                  RuleEvaluation("A8", "CRITICAL", ADJUSTMENT_RULES.A8))
        \o append_if(inp.corr_pctile_1y > 80 /\ get(pos, "is_dispersion", FALSE),
                  RuleEvaluation("A9", "HIGH", ADJUSTMENT_RULES.A9))

\* The default of ExitEngine.evaluate's nav parameter.
DEFAULT_NAV == 100000

\* ExitEngine.evaluate: the triggered rules among X1..X7, in this order.
exit_evaluate(pos, reg, inp, prev, nav) ==
    LET family == get(pos, "family", "")
        pnl == get(pos, "unrealized_pnl", 0)
        max_profit == get(pos, "max_profit", 0)
        premium_paid == get(pos, "premium_paid", 0)
        premium_received == get(pos, "premium_received", 0)
        dte == position_dte(pos)
        allowed == get(pos, "regime_allowed", {})
        daily_pnl == get(pos, "daily_pnl", 0)
    IN  append_if(/\ family = "short_premium"
                  /\ max_profit > 0 /\ 2 * pnl >= max_profit,
                  RuleEvaluation("X1", "HIGH", EXIT_RULES.X1))
        \o append_if(/\ family = "long_premium"
                     /\ premium_paid > 0 /\ pnl >= premium_paid,
                  RuleEvaluation("X2", "HIGH", EXIT_RULES.X2))
        \o append_if(/\ family = "short_premium"
                     /\ premium_received > 0 /\ pnl < 0
                     /\ abs(pnl) >= premium_received * 2,
                  RuleEvaluation("X3", "CRITICAL", EXIT_RULES.X3))
        \o append_if(/\ family = "long_premium"
                     /\ premium_paid > 0 /\ pnl < 0
                     /\ 2 * abs(pnl) >= premium_paid,
                  RuleEvaluation("X4", "HIGH", EXIT_RULES.X4))
        \o append_if(dte <= 7 /\ ~get(pos, "is_0dte", FALSE),
                  RuleEvaluation("X5", "CRITICAL", EXIT_RULES.X5))
        \o append_if(/\ regime_changed(reg, prev)
                     /\ allowed # {}
                     /\ reg.regime \notin allowed /\ "ALL" \notin allowed,
                  RuleEvaluation("X6", "CRITICAL", EXIT_RULES.X6))
        \o append_if(/\ nav > 0 /\ daily_pnl < 0
                     /\ 1000 * abs(daily_pnl) > 15 * nav,
                  RuleEvaluation("X7", "CRITICAL", EXIT_RULES.X7))

(***************************************************************************)
(* The two evaluators applied to a position, a snapshot and a previous     *)
(* regime.  The positions are five complete mappings, the same with one    *)
(* or two fields left out, and the mappings of at most one field.          *)
(***************************************************************************)

PositionFields ==
    { "id", "dte", "is_0dte", "strategy", "family", "current_delta",
      "initial_delta", "tested_breach_std", "portfolio_delta_pct",
      "is_covered_call", "is_dispersion", "unrealized_pnl", "max_profit",
      "premium_received", "premium_paid", "daily_pnl", "regime_allowed" }

\* A short-premium position in profit that every rule finds fault with.
TestedCondor ==
    [ id |-> "p1", dte |-> 5, is_0dte |-> FALSE, strategy |-> "iron_condor",
      family |-> "short_premium", current_delta |-> 40, initial_delta |-> 15,
      tested_breach_std |-> 15, portfolio_delta_pct |-> 20,
      is_covered_call |-> TRUE, is_dispersion |-> TRUE,
      unrealized_pnl |-> 600, max_profit |-> 1000, premium_received |-> 1000,
      premium_paid |-> 0, daily_pnl |-> -2000,
      regime_allowed |-> { "LOW", "NORMAL" } ]

\* A short-premium position at a loss inside the roll window.
LosingStrangle ==
    [ TestedCondor EXCEPT
        !.id = "p2", !.dte = 14, !.strategy = "short_strangle",
        !.unrealized_pnl = -2500, !.portfolio_delta_pct = -20,
        !.current_delta = -40, !.initial_delta = 25, !.daily_pnl = -1000,
        !.regime_allowed = { "ALL" } ]

\* A long-premium position that doubled.
WinningCall ==
    [ id |-> "p3", dte |-> 30, is_0dte |-> FALSE, strategy |-> "long_call",
      family |-> "long_premium", current_delta |-> 25, initial_delta |-> 15,
      tested_breach_std |-> 0, portfolio_delta_pct |-> 10,
      is_covered_call |-> FALSE, is_dispersion |-> FALSE,
      unrealized_pnl |-> 500, max_profit |-> 0, premium_received |-> 0,
      premium_paid |-> 500, daily_pnl |-> 0,
      regime_allowed |-> { "VERY_LOW" } ]

\* A same-day long-premium position at a loss.
LosingZeroDte ==
    [ WinningCall EXCEPT
        !.id = "p4", !.dte = 0, !.is_0dte = TRUE, !.unrealized_pnl = -300,
        !.daily_pnl = -1500 ]

\* A position no rule finds fault with while all its fields are given.
Healthy ==
    [ TestedCondor EXCEPT
        !.id = "p5", !.dte = 45, !.initial_delta = 25, !.tested_breach_std = 10,
        !.portfolio_delta_pct = 15, !.is_covered_call = FALSE,
        !.is_dispersion = FALSE, !.unrealized_pnl = 0, !.daily_pnl = 0,
        !.regime_allowed = { "ALL" } ]

CompletePositions ==
    { TestedCondor, LosingStrangle, WinningCall, LosingZeroDte, Healthy }

\* pos restricted to the fields in keep.
restrict(pos, keep) ==
    [ f \in DOMAIN pos \cap keep |-> pos[f] ]

\* The largest number of fields left out of, or kept in, a partial position.
MaxAbsent == 2
MaxKept == 1

RulePositions ==
    { restrict(p, PositionFields \ out) :
        p \in CompletePositions,
        out \in { s \in SUBSET PositionFields : Cardinality(s) <= MaxAbsent } }
    \cup
    { restrict(p, keep) :
        p \in CompletePositions,
        keep \in { s \in SUBSET PositionFields : Cardinality(s) <= MaxKept } }

\* What the rules read from the snapshot, around their thresholds; a
\* 5-day change of vix or more leaves no positive level five days earlier.
RuleInputs ==
    { [ DefaultInputs EXCEPT
          !.vix = v, !.vix_1d_change = d, !.vix_5d_change = c,
          !.days_to_earnings = e, !.corr_pctile_1y = r ] :
        v \in {0, 13, 14, 40}, d \in {5, 6}, c \in {-3, 0, 3, 4, 13, 14, 20},
        e \in {5, 6}, r \in {80, 81} }

\* Snapshots under which the partial positions are evaluated.
QuietInputs ==
    { [ DefaultInputs EXCEPT
          !.vix = v, !.days_to_earnings = 5, !.corr_pctile_1y = 81 ] :
        v \in {19, 22} }

\* previous_regime arguments: None, the regime of the default snapshot and
\* that of a calm one.
PreviousRegimes ==
    { {}, { classify(DefaultInputs) },
      { classify([ DefaultInputs EXCEPT !.vix = 11 ]) } }

\* nav arguments of ExitEngine.evaluate.
Navs == { 50000, DEFAULT_NAV }

RulesInit ==
    /\ CacheInit
    /\ \/ position \in RulePositions /\ inputs \in QuietInputs
       \/ position \in CompletePositions /\ inputs \in RuleInputs
    /\ regime = classify(inputs)
    /\ objective = "income"
    /\ scored = << >>
    /\ reco = 0
    /\ phase = "rules"
    /\ previous \in PreviousRegimes
    /\ adj_rules = {}
    /\ exit_rules = {}
    /\ FacadeIdle
    /\ ProviderIdle

\* adj_rules = AdjustmentEngine().evaluate(position, regime, inputs, previous)
AdjustmentEvaluate ==
    /\ phase = "rules"
    /\ adj_rules = {}
    /\ adj_rules' = { adjustment_evaluate(position, regime, inputs, previous) }
    /\ UNCHANGED << position, previous, exit_rules >>
    /\ UNCHANGED << cacheVars, engineVars, facadeVars, providerVars >>

\* exit_rules = ExitEngine().evaluate(position, regime, inputs, previous, nav)
ExitEvaluate(nav) ==
    /\ phase = "rules"
    /\ exit_rules = {}
    /\ exit_rules' = { [ nav   |-> nav,
                         rules |-> exit_evaluate(position, regime, inputs,
                                                 previous, nav) ] }
    /\ UNCHANGED << position, previous, adj_rules >>
    /\ UNCHANGED << cacheVars, engineVars, facadeVars, providerVars >>

RulesNext ==
    \/ AdjustmentEvaluate
    \/ \E nav \in Navs : ExitEvaluate(nav)

SpecRules == RulesInit /\ [][RulesNext]_vars

(***************************************************************************)
(* Part V.  DecisionEngine                                                 *)
(*                                                                         *)
(* The facade with its two slots, _previous_regime and _last_inputs.       *)
(* inputs is the snapshot the collector returns to the next call; every    *)
(* entry point is one step.  Results are modelled without timestamps.      *)
(***************************************************************************)

CRISIS_ACTIONS ==
    << "Close ALL naked short vol immediately",
       "Reduce defined-risk short vol by 75%",
       "Deploy remaining hedge budget into convexity",
       "Cash position to minimum 40% of NAV",
       "Monitor for VIX peak (avg 2-4 weeks, avg peak ~45) [GS Vol Vitals]",
       "Do NOT sell vol until VIX establishes downtrend from peak" >>

EarlyWarningSignal(signal, triggered, current_value) ==
    [ signal |-> signal, triggered |-> triggered,
      current_value |-> current_value ]

\* TailRiskManager._check_early_warnings
check_early_warnings(inp) ==
    << EarlyWarningSignal("HY OAS widens > 50bps in 20 days",
                          inp.hy_oas_20d_change > 50, inp.hy_oas_20d_change),
       EarlyWarningSignal("Bid-ask spreads widen > 50% above 20d MA for > 10 days",
                          inp.bid_ask_widening > 15, inp.bid_ask_widening),
       EarlyWarningSignal("Implied correlation rises above 80th pctile in 5 days",
                          inp.corr_pctile_1y > 80, inp.corr_pctile_1y),
       EarlyWarningSignal("VVIX > 28 sustained for 3+ days",
                          inp.vvix > 28, inp.vvix) >>

\* TailRiskManager.assess
assess(inp) ==
    LET warnings     == check_early_warnings(inp)
        active_count == Cardinality({ i \in DOMAIN warnings :
                                        warnings[i].triggered })
        crisis       == inp.vix > 35 \/ active_count >= 3
        signal       == inp.ts_1m_3m < 0
    IN  [ early_warnings         |-> warnings,
          active_warnings_count  |-> active_count,
          crisis_protocol_active |-> crisis,
          crisis_actions         |-> IF crisis THEN CRISIS_ACTIONS ELSE << >>,
          tail_trading           |->
              [ signal_active       |-> signal,
                ts_value            |-> inp.ts_1m_3m,
                delta_pillar_active |-> signal,
                gamma_pillar_active |-> signal,
                vega_pillar_active  |-> signal ] ]

ConflictScenario(conflict_id, detected) ==
    [ conflict_id |-> conflict_id, detected |-> detected ]

\* ConflictResolver._evaluate_all: the eight scenarios with their detection.
evaluate_all(reg, inp) ==
    << ConflictScenario("C1", inp.vix_percentile_1y > 75
                              /\ inp.spx_level < inp.spx_sma_200),
       ConflictScenario("C2", /\ Min({ inp.days_to_fomc, inp.days_to_cpi,
                                       inp.days_to_nfp }) <= 3
                              /\ inp.vix_percentile_1y > 40),
       ConflictScenario("C3", inp.vix < 15 /\ inp.skew_pctile_1y > 80),
       ConflictScenario("C4", inp.hy_oas_20d_change > 50 /\ inp.vix < 18),
       ConflictScenario("C5", inp.corr_pctile_1y < 30 /\ inp.dispersion > 10),
       ConflictScenario("C6", reg.confidence = "LOW"),
       ConflictScenario("C7", inp.vvix > 22 /\ 15 <= inp.vix /\ inp.vix <= 20),
       ConflictScenario("C8", inp.ts_1m_3m < 0 /\ inp.vix < 25) >>

\* ConflictResolver.check_conflicts: the detected scenarios.
check_conflicts(reg, inp) ==
    SelectSeq(evaluate_all(reg, inp), LAMBDA c : c.detected)

\* The active playbook of full_analysis: {} for None.  Every event type
\* but NONE has a playbook.
active_playbook(reg) ==
    IF reg.event_active /\ reg.event_type # "NONE"
    THEN { reg.event_type } ELSE {}

\* DecisionEngine._evaluate_position with the slot's content prev.
evaluate_position(pos, reg, inp, prev) ==
    LET adj       == adjustment_evaluate(pos, reg, inp, prev)
        ex        == exit_evaluate(pos, reg, inp, prev, DEFAULT_NAV)
        triggered == adj \o ex
        critical  == SelectSeq(triggered, LAMBDA r : r.priority = "CRITICAL")
        first3    == SubSeq(triggered, 1, Min({ 3, Len(triggered) }))
    IN  [ position_id      |-> get(pos, "id", "unknown"),
          adjustment_rules |-> adj,
          exit_rules       |-> ex,
          triggered_count  |-> Len(triggered),
          critical_count   |-> Len(critical),
          recommended_action |->
              IF Len(critical) > 0
              THEN << "IMMEDIATE ACTION REQUIRED: " >>
                   \o [ i \in DOMAIN critical |-> critical[i].action ]
              ELSE IF Len(triggered) > 0
              THEN << "Review: " >>
                   \o [ i \in DOMAIN first3 |-> first3[i].action ]
              ELSE << "No action needed - position healthy" >> ]

\* What full_analysis returns, or the error select raised.
full_analysis(inp, prev, nav, obj, positions) ==
    LET reg            == classify(inp)
        recommendation == select(reg, inp, obj)
    IN  IF recommendation = RaisedValidationError
        THEN RaisedValidationError
        ELSE [ regime          |-> reg,
               recommendation  |-> recommendation,
               tail_risk       |-> assess(inp),
               conflicts       |-> check_conflicts(reg, inp),
               active_playbook |-> active_playbook(reg),
               position_health |->
                   [ i \in DOMAIN positions |->
                       evaluate_position(positions[i], reg, inp, prev) ],
               market_inputs   |-> inp ]

\* A call of an entry point: its arguments, the snapshot collected, the
\* slot it found and what it returned or raised.  repeats tells that the
\* call is a full_analysis directly after a full_analysis that found the
\* slot empty and had the same arguments and snapshot.
Called(entry, args, inp, slot, res, rep) ==
    [ entry |-> entry, args |-> args, inputs |-> inp, slot_before |-> slot,
      result |-> res, repeats |-> rep ]

\* The snapshots the collector returns: quiet, calm, a vol spike, an FOMC
\* window, a crisis and one whose edge score select rejects under income.
FacadeInputs ==
    { DefaultInputs,
      [ DefaultInputs EXCEPT !.vix = 11 ],
      [ DefaultInputs EXCEPT !.vix = 40, !.vix_1d_change = 6 ],
      [ DefaultInputs EXCEPT !.vix = 22, !.days_to_fomc = 3 ],
      [ DefaultInputs EXCEPT !.vix = 11, !.vix_1d_change = 5, !.ts_1m_3m = -5,
                             !.hy_oas_20d_change = 51, !.bid_ask_widening = 21,
                             !.emini_depth = 899 ],
      [ DefaultInputs EXCEPT !.vix_percentile_1y = 30, !.iv_rv_spread = -50 ] }

\* positions arguments of full_analysis.
PositionLists ==
    { << >>, << TestedCondor >>, << LosingStrangle >>,
      << LosingStrangle, WinningCall >> }

FacadeObjectives == { "income", "hedging" }

FacadeInit ==
    /\ CacheInit
    /\ inputs \in FacadeInputs
    /\ regime = 0
    /\ objective = "income"
    /\ scored = << >>
    /\ reco = 0
    /\ phase = "facade"
    /\ RulesIdle
    /\ FacadeIdle
    /\ ProviderIdle

\* The market moves: the collector's next snapshot is another one.
MarketMoves(inp) ==
    /\ phase = "facade"
    /\ inp # inputs
    /\ inputs' = inp
    /\ UNCHANGED << regime, objective, scored, reco, phase >>
    /\ UNCHANGED << cacheVars, rulesVars, facadeVars, providerVars >>

\* Variant of full_analysis's step that stores the regime in the slot before
\* it evaluates the positions.
FullAnalysis_slot_first(nav, obj, positions) ==
    LET args == [ nav |-> nav, objective |-> obj, positions |-> positions ]
        res  == full_analysis(inputs, { classify(inputs) }, nav, obj,
                              positions)
    IN  /\ phase = "facade"
        /\ last_inputs' = { inputs }
        /\ previous_regime' = IF res = RaisedValidationError
                              THEN previous_regime
                              ELSE { classify(inputs) }
        /\ last_call' = Called("full_analysis", args, inputs, previous_regime,
                               res,
                               /\ last_call.entry = "full_analysis"
                               /\ last_call.slot_before = {}
                               /\ last_call.args = args
                               /\ last_call.inputs = inputs)
        /\ UNCHANGED << cacheVars, engineVars, rulesVars, providerVars >>

FullAnalysis(nav, obj, positions) ==
    LET args == [ nav |-> nav, objective |-> obj, positions |-> positions ]
        res  == full_analysis(inputs, previous_regime, nav, obj, positions)
    IN  /\ phase = "facade"
        /\ last_inputs' = { inputs }
        /\ previous_regime' = IF res = RaisedValidationError
                              THEN previous_regime
                              ELSE { classify(inputs) }
        /\ last_call' = Called("full_analysis", args, inputs, previous_regime,
                               res,
                               /\ last_call.entry = "full_analysis"
                               /\ last_call.slot_before = {}
                               /\ last_call.args = args
                               /\ last_call.inputs = inputs)
        /\ UNCHANGED << cacheVars, engineVars, rulesVars, providerVars >>

GetRegime ==
    /\ phase = "facade"
    /\ last_inputs' = { inputs }
    /\ previous_regime' = { classify(inputs) }
    /\ last_call' = Called("get_regime", << >>, inputs, previous_regime,
                           classify(inputs), FALSE)
    /\ UNCHANGED << cacheVars, engineVars, rulesVars, providerVars >>

GetRecommendations(nav, obj) ==
    /\ phase = "facade"
    /\ last_inputs' = { inputs }
    /\ previous_regime' = { classify(inputs) }
    /\ last_call' = Called("get_recommendations",
                           [ nav |-> nav, objective |-> obj ], inputs,
                           previous_regime,
                           select(classify(inputs), inputs, obj), FALSE)
    /\ UNCHANGED << cacheVars, engineVars, rulesVars, providerVars >>

EvaluatePosition(pos) ==
    /\ phase = "facade"
    /\ last_inputs' = { inputs }
    /\ last_call' = Called("evaluate_position", [ position |-> pos ], inputs,
                           previous_regime,
                           evaluate_position(pos, classify(inputs), inputs,
                                             previous_regime), FALSE)
    /\ UNCHANGED previous_regime
    /\ UNCHANGED << cacheVars, engineVars, rulesVars, providerVars >>

GetTailRisk ==
    /\ phase = "facade"
    /\ last_inputs' = { inputs }
    /\ last_call' = Called("get_tail_risk", << >>, inputs, previous_regime,
                           assess(inputs), FALSE)
    /\ UNCHANGED previous_regime
    /\ UNCHANGED << cacheVars, engineVars, rulesVars, providerVars >>

GetConflicts ==
    /\ phase = "facade"
    /\ last_inputs' = { inputs }
    /\ last_call' = Called("get_conflicts", << >>, inputs, previous_regime,
                           check_conflicts(classify(inputs), inputs), FALSE)
    /\ UNCHANGED previous_regime
    /\ UNCHANGED << cacheVars, engineVars, rulesVars, providerVars >>

GetAllConflicts ==
    /\ phase = "facade"
    /\ last_inputs' = { inputs }
    /\ last_call' = Called("get_all_conflicts", << >>, inputs, previous_regime,
                           evaluate_all(classify(inputs), inputs), FALSE)
    /\ UNCHANGED previous_regime
    /\ UNCHANGED << cacheVars, engineVars, rulesVars, providerVars >>

\* The handler of GET /api/engine/regime/history: it calls get_regime and
\* then reads the slot.  "previous" is {} for null.
GetEngineRegimeHistory ==
    LET current == classify(inputs)
        slot    == { current }
    IN  /\ phase = "facade"
        /\ last_inputs' = { inputs }
        /\ previous_regime' = slot
        /\ last_call' = Called("get_engine_regime_history", << >>, inputs,
                               previous_regime,
                               [ current |-> current, previous |-> slot ],
                               FALSE)
        /\ UNCHANGED << cacheVars, engineVars, rulesVars, providerVars >>

\* A catalog lookup: it collects nothing.
GetStrategyUniverse ==
    /\ phase = "facade"
    /\ last_call' = Called("get_strategy_universe", << >>, << >>,
                           previous_regime, TemplateNames, FALSE)
    /\ UNCHANGED << previous_regime, last_inputs >>
    /\ UNCHANGED << cacheVars, engineVars, rulesVars, providerVars >>

FacadeNext ==
    \/ \E inp \in FacadeInputs : MarketMoves(inp)
    \/ \E nav \in Navs, obj \in FacadeObjectives, ps \in PositionLists :
         FullAnalysis(nav, obj, ps)
    \/ GetRegime
    \/ GetEngineRegimeHistory
    \/ \E nav \in Navs, obj \in FacadeObjectives : GetRecommendations(nav, obj)
    \/ \E ps \in PositionLists \ { << >> } : EvaluatePosition(ps[1])
    \/ GetTailRisk
    \/ GetConflicts
    \/ GetAllConflicts
    \/ GetStrategyUniverse

SpecFacade == FacadeInit /\ [][FacadeNext]_vars

(***************************************************************************)
(* Claims about the TTL cache                                              *)
(***************************************************************************)

\* A caller c leaves lock.acquire() in this step (it resumes with the lock
\* or is cancelled while queued).
Resumes(c) == pc[c] = "waiting" /\ pc'[c] # "waiting"

\* A call of caller c returns or raises in this step.
Finishes(c) == pc[c] # "done" /\ pc'[c] = "done"

\* C1: callers that arrive for a key while a fetch_fn invocation is in
\* flight for it start no invocation of their own and receive the value
\* that invocation returned, provided it succeeded and its entry is still
\* stored and unexpired when they resume; the caller that ran fetch_fn
\* receives the value as well.
C1_CoalescedFetchOnce ==
    [][ \A c \in Callers :
          /\ ( /\ Resumes(c)
               /\ result'[c].kind # "cancelled"
               /\ joined[c] \notin {0, c}
               /\ fout[joined[c]] = "ok"
               /\ store[ckey[c]].present
               /\ store[ckey[c]].value = joined[c]
               /\ now < store[ckey[c]].expire_at )
             => ( /\ pc'[c] = "done"
                  /\ result'[c] = ValueResult(joined[c])
                  /\ fout'[c] = "none" )
          /\ (fout[c] = "running" /\ fout'[c] = "ok")
             => result'[c] = ValueResult(c)
      ]_vars

\* Caller 2 was suspended on the lock while caller 1 ran fetch_fn; it has
\* resumed and returned caller 1's value without fetching.
C1_Witness ==
    /\ fout[1] = "ok" /\ result[1] = ValueResult(1)
    /\ joined[2] = 1
    /\ pc[2] = "done" /\ result[2] = ValueResult(1) /\ fout[2] = "none"

\* C2: in every reachable state at most one fetch_fn invocation is in
\* progress for any key.
C2_OneFetchPerKey ==
    \A k \in Keys : Cardinality(Fetching(k)) <= 1

\* A fetch is in flight on a key while another caller of the same key is
\* suspended on its lock.
C2_Witness ==
    \E k \in Keys :
        /\ Cardinality(Fetching(k)) = 1
        /\ \E c \in Callers : pc[c] = "waiting" /\ ckey[c] = k

\* C3: when fetch_fn raises, the caller gets the error and the store is
\* left exactly as it was; a get() of a key without entry returns None.
C3_ErrorNotCached ==
    [][ /\ \A c \in Callers :
             (fout[c] = "running" /\ fout'[c] = "raised")
             => (result'[c] = ErrorResult /\ store' = store)
        /\ (lastOp'.op = "get") =>
             \A k \in Keys :
               (~store[k].present /\ Get(k)) => lastOp'.ret = NoResult
      ]_vars

\* A fetch has raised, nothing is stored, and a get() has returned None.
C3_Witness ==
    /\ \E c \in Callers : fout[c] = "raised" /\ result[c] = ErrorResult
    /\ \A k \in Keys : ~store[k].present
    /\ lastOp.op = "get" /\ lastOp.ret = NoResult

\* C4 (as claimed): a caller that was waiting on a key whose in-flight
\* fetch_fn raised starts no invocation of its own and is given that error.
C4_FailureReachesWaiters ==
    [][ \A c \in Callers :
          ( /\ pc[c] = "waiting"
            /\ joined[c] \notin {0, c}
            /\ fout[joined[c]] = "raised" )
          => ( /\ fout'[c] = "none"
               /\ (Finishes(c) /\ result'[c].kind # "cancelled")
                  => result'[c] = ErrorResult )
      ]_vars

\* C5: an entry whose expire_at has been reached is a miss: get() returns
\* None and deletes it, get_or_fetch does not return it but goes on to
\* fetch_fn (behind the lock), and the fetched value is stored with
\* expire_at = now + ttl; an unexpired entry is returned without fetching.
C5_ExpiredIsMiss ==
    [][ /\ (lastOp'.op = "get") =>
             \A k \in Keys :
               Get(k) =>
                 IF store[k].present /\ now >= store[k].expire_at
                 THEN lastOp'.ret = NoResult /\ store'[k] = NoEntry
                 ELSE store' = store
        /\ \A c \in Callers :
             (pc[c] = "idle" /\ pc'[c] # "idle") =>
               \A k \in Keys, ttl \in Ttls :
                 Call(c, k, ttl) =>
                   IF store[k].present /\ now < store[k].expire_at
                   THEN /\ pc'[c] = "done"
                        /\ result'[c] = ValueResult(store[k].value)
                        /\ fout'[c] = "none"
                   ELSE /\ pc'[c] \in {"waiting", "fetching"}
                        /\ (holder[k] = 0 /\ waitq[k] = << >>)
                           => fout'[c] = "running"
        /\ \A c \in Callers :
             (Resumes(c) /\ Wake(c)) =>
               IF store[ckey[c]].present /\ now < store[ckey[c]].expire_at
               THEN /\ pc'[c] = "done"
                    /\ result'[c] = ValueResult(store[ckey[c]].value)
                    /\ fout'[c] = "none"
               ELSE fout'[c] = "running"
        /\ \A c \in Callers :
             (fout[c] = "running" /\ fout'[c] = "ok")
             => store'[ckey[c]] = Entry(c, now + cttl[c])
      ]_vars

\* An entry fetched by caller 1 has expired, caller 2 found it expired and
\* has fetched and stored a fresh value.
C5_Witness ==
    /\ fout[1] = "ok" /\ fout[2] = "ok"
    /\ \E k \in Keys : store[k].present /\ store[k].value = 2
                       /\ store[k].expire_at = now + 1
    /\ now > 0

\* C6 (as claimed): a caller that was waiting on a key whose in-flight
\* get_or_fetch was cancelled observes cancellation, never a value.
C6_CancelReachesWaiters ==
    [][ \A c \in Callers :
          ( /\ Finishes(c)
            /\ joined[c] \notin {0, c}
            /\ fout[joined[c]] = "cancelled" )
          => result'[c] = CancelledResult
      ]_vars

(***************************************************************************)
(* Claims about the decision engine                                        *)
(***************************************************************************)

\* C7: classify returns CRISIS exactly when the weighted crisis sum (VIX>30
\* +2, VIX 1-day change>5 +2, VIX>35 +1, HY-OAS 20d change>50 +1, 3M-1M
\* IV<0 +1, bid-ask widening>2.0 +1) is at least 3, with confidence HIGH
\* iff the sum is at least 5 and MEDIUM otherwise; otherwise it returns
\* LIQUIDITY_STRESS exactly when at least 2 of the four liquidity
\* indicators hold; otherwise the level follows from VIX alone through
\* <12, <15, <20, <25, <=30, >30.
C7_LevelByPriority ==
    phase # "collected" =>
      LET B(b) == IF b THEN 1 ELSE 0
          sum  == 2 * B(inputs.vix > 30) + 2 * B(inputs.vix_1d_change > 5)
                  + B(inputs.vix > 35) + B(inputs.hy_oas_20d_change > 50)
                  + B(inputs.ts_1m_3m < 0) + B(inputs.bid_ask_widening > 20)
          liq  == Cardinality(
                    { j \in 1..4 :
                        CASE j = 1 -> inputs.bid_ask_widening > 15
                          [] j = 2 -> 10 * inputs.spx_bid_ask
                                        > 13 * inputs.spx_bid_ask_20d_ma
                          [] j = 3 -> inputs.emini_depth < 900
                          [] j = 4 -> inputs.hy_oas_20d_change > 30 })
          byVix == CASE inputs.vix < 12  -> "VERY_LOW"
                     [] inputs.vix \in 12..14 -> "LOW"
                     [] inputs.vix \in 15..19 -> "NORMAL"
                     [] inputs.vix \in 20..24 -> "ELEVATED"
                     [] inputs.vix \in 25..30 -> "HIGH"
                     [] inputs.vix > 30  -> "EXTREME"
      IN  /\ (regime.regime = "CRISIS") <=> (sum >= 3)
          /\ (sum >= 3) =>
               regime.confidence = IF sum >= 5 THEN "HIGH" ELSE "MEDIUM"
          /\ (sum < 3) => ((regime.regime = "LIQUIDITY_STRESS") <=> (liq >= 2))
          /\ (sum < 3 /\ liq < 2) => regime.regime = byVix

\* A snapshot with VIX above 30 whose crisis sum stays below 3 has been
\* classified as LIQUIDITY_STRESS, not as EXTREME.
C7_Witness ==
    /\ phase = "classified"
    /\ inputs.vix > 30
    /\ regime.regime = "LIQUIDITY_STRESS"

\* C8 (as claimed): for scenario 2 classify returns level ELEVATED, trend
\* STRONG_UPTREND, event_active false and confidence MEDIUM or HIGH.
C8_Scenario2Confidence ==
    (phase # "collected" /\ inputs = Scenario2) =>
        /\ regime.regime = "ELEVATED"
        /\ regime.trend = "STRONG_UPTREND"
        /\ regime.event_active = FALSE
        /\ regime.confidence \in {"MEDIUM", "HIGH"}

\* C9: the recommendation returned by select holds at most 3 candidates,
\* every one of them has passed all of its gate checks, and the candidates
\* are ordered by non-increasing score total.
C9_TopThreeGatedSorted ==
    (phase = "selected" /\ reco # RaisedValidationError) =>
      LET top == reco.strategies
      IN  /\ Len(top) <= 3
          /\ \A i \in DOMAIN top :
               \A g \in DOMAIN top[i].gates : top[i].gates[g].passed
          /\ \A i \in DOMAIN top : \A j \in DOMAIN top :
               i < j => top[i].scores.total >= top[j].scores.total

\* select has returned three candidates of different totals while a
\* template matching the objective was stopped by a gate.
C9_Witness ==
    /\ phase = "selected"
    /\ Len(reco.strategies) = 3
    /\ reco.strategies[1].scores.total > reco.strategies[2].scores.total
    /\ reco.strategies[2].scores.total > reco.strategies[3].scores.total
    /\ \E i \in DOMAIN TemplateNames :
         /\ matches_objective(TEMPLATES[TemplateNames[i]], objective)
         /\ ~all_passed(check_gates(TEMPLATES[TemplateNames[i]], regime, inputs))

\* C10 (as claimed): each of the six dimension scores the selector
\* computes lies in [0,10].
C10_DimensionsInRange ==
    \A i \in DOMAIN scored :
      \A f \in { "edge", "carry_fit", "tail_risk", "robustness", "liquidity",
                 "complexity" } :
        0 <= scored[i][f] /\ scored[i][f] <= 1000

\* C11 (as claimed): the size_multiplier the selector attaches to a
\* candidate equals the final multiplier PositionSizer.calculate reports
\* for the same regime, VVIX, confidence and premium side, which is the
\* product of the three factors rounded to 4 decimals.
C11_SelectorSizeIsSizerFinal ==
    (phase = "selected" /\ reco # RaisedValidationError) =>
      \A i \in DOMAIN reco.strategies :
        LET c    == reco.strategies[i]
            sell == TEMPLATES[c.name].family = "short_premium"
        IN  100 * c.params.size_multiplier
              = calculate(regime, inputs, sell).size_multiplier

\* C12 (as claimed): whenever the classifier labels the snapshot CRISIS,
\* select with objective income returns NO_TRADE with no candidates.
C12_CrisisIncomeNoTrade ==
    (phase = "selected" /\ regime.regime = "CRISIS" /\ objective = "income") =>
      /\ reco.recommendation = "NO_TRADE"
      /\ reco.strategies = << >>

\* The passing candidates of the last select, sorted by total descending
\* and cut to the top 3.
C13_Top ==
    LET names  == reaching_score(regime, inputs, objective)
        sorted == sort_candidates([ i \in DOMAIN names |->
                      StrategyCandidate(names[i], regime, inputs) ])
    IN  SubSeq(sorted, 1, Min({3, Len(sorted)}))

\* C13: a recommendation select returns is NO_TRADE when no candidate is
\* left in the top 3; else LOW_CONVICTION with the top 3 when the best
\* total is below 5.0; else, under LOW confidence, TRADE_CAUTIOUS with the
\* top-3 candidates of at least 2 legs, or REGIME_UNCERTAIN with none when
\* no top-3 candidate has 2 legs; else TRADE with the top 3.
C13_FallbackTable ==
    (phase = "selected" /\ reco # RaisedValidationError) =>
      LET top     == C13_Top
          none    == Len(top) = 0
          weak    == ~none /\ top[1].scores.total < 500
          unsure  == ~none /\ ~weak /\ regime.confidence = "LOW"
          twoLegs == { i \in DOMAIN top : TEMPLATES[top[i].name].legs >= 2 }
      IN  /\ none => reco.recommendation = "NO_TRADE" /\ reco.strategies = << >>
          /\ weak => reco.recommendation = "LOW_CONVICTION" /\ reco.strategies = top
          /\ (unsure /\ twoLegs = {}) =>
               reco.recommendation = "REGIME_UNCERTAIN" /\ reco.strategies = << >>
          /\ (unsure /\ twoLegs # {}) =>
               /\ reco.recommendation = "TRADE_CAUTIOUS"
               /\ Len(reco.strategies) = Cardinality(twoLegs)
               /\ \A i \in DOMAIN reco.strategies :
                    TEMPLATES[reco.strategies[i].name].legs >= 2
               /\ \A i \in twoLegs : \E j \in DOMAIN reco.strategies :
                    reco.strategies[j] = top[i]
          /\ (~none /\ ~weak /\ ~unsure) =>
               reco.recommendation = "TRADE" /\ reco.strategies = top

\* select has returned TRADE_CAUTIOUS after dropping a single-leg candidate
\* from the top 3.
C13_Witness ==
    /\ phase = "selected"
    /\ reco.recommendation = "TRADE_CAUTIOUS"
    /\ Len(reco.strategies) < Len(C13_Top)

(***************************************************************************)
(* Claims about the adjustment and exit rules                              *)
(***************************************************************************)

\* The evaluations of rule id among rules.
Returned(rules, id) ==
    { i \in DOMAIN rules : rules[i].rule_id = id }

DependsOn ==
    [ A1 |-> { "dte" },
      A2 |-> { "dte", "is_0dte" },
      A3 |-> { "current_delta", "initial_delta" },
      A4 |-> { "strategy", "tested_breach_std" },
      A5 |-> { "portfolio_delta_pct" },
      A6 |-> {},
      A7 |-> { "is_covered_call" },
      A8 |-> {},
      A9 |-> { "is_dispersion" },
      X1 |-> { "family", "unrealized_pnl", "max_profit" },
      X2 |-> { "family", "unrealized_pnl", "premium_paid" },
      X3 |-> { "family", "unrealized_pnl", "premium_received" },
      X4 |-> { "family", "unrealized_pnl", "premium_paid" },
      X5 |-> { "dte", "is_0dte" },
      X6 |-> { "regime_allowed" },
      X7 |-> { "daily_pnl" } ]

\* C19 (as claimed): evaluation of a position with absent fields returns,
\* and no rule whose trigger depends on an absent field is triggered.
C19_AbsentFieldNoTrigger ==
    /\ \A rules \in adj_rules : \A i \in DOMAIN rules :
         DependsOn[rules[i].rule_id] \subseteq DOMAIN position
    /\ \A e \in exit_rules : \A i \in DOMAIN e.rules :
         DependsOn[e.rules[i].rule_id] \subseteq DOMAIN position

\* The two fields whose default leaves the trigger open: is_0dte counts as
\* false and initial_delta as 15.
OpenDefaults == { "is_0dte", "initial_delta" }

\* C19 (amended): evaluation of a position with absent fields returns, and
\* no rule is triggered whose trigger depends on an absent field other than
\* is_0dte and initial_delta; with is_0dte absent A2 and X5 still trigger
\* on dte <= 7, with initial_delta absent A3 still triggers on
\* |current_delta| > 30.
C19_AbsentFieldNoTriggerButDefaults ==
    /\ \A rules \in adj_rules : \A i \in DOMAIN rules :
         (DependsOn[rules[i].rule_id] \ OpenDefaults) \subseteq DOMAIN position
    /\ \A e \in exit_rules : \A i \in DOMAIN e.rules :
         (DependsOn[e.rules[i].rule_id] \ OpenDefaults) \subseteq DOMAIN position

\* Both evaluators have returned for a position without dte and daily_pnl
\* whose current_delta still triggers A3 and whose profit still triggers X1.
C19_Witness ==
    /\ "dte" \notin DOMAIN position
    /\ "daily_pnl" \notin DOMAIN position
    /\ \E rules \in adj_rules : Returned(rules, "A3") # {}
    /\ \E e \in exit_rules : Returned(e.rules, "X1") # {}

(***************************************************************************)
(* Claims about the engine facade                                          *)
(***************************************************************************)

\* The position health checks the last call returned.
HealthChecks ==
    IF last_call.entry = "evaluate_position" THEN << last_call.result >>
    ELSE IF /\ last_call.entry = "full_analysis"
            /\ last_call.result # RaisedValidationError
    THEN last_call.result.position_health
    ELSE << >>

\* C14 (as claimed): in the rule evaluations the engine returns for a
\* position, adjustment rules followed by exit rules, every evaluation is
\* triggered and no HIGH evaluation comes before a CRITICAL one.
C14_TriggeredCriticalFirst ==
    \A h \in DOMAIN HealthChecks :
      LET rules == HealthChecks[h].adjustment_rules
                     \o HealthChecks[h].exit_rules
      IN  /\ \A i \in DOMAIN rules : rules[i].triggered
          /\ \A i \in DOMAIN rules : \A j \in DOMAIN rules :
               (rules[i].priority = "CRITICAL" /\ rules[j].priority = "HIGH")
                 => i < j

\* C15 (as claimed): a step of any entry point other than full_analysis
\* and get_regime leaves the previous-regime slot as it was.  (The
\* regime-history handler is a call of get_regime.)
C15_SlotWrittenOnlyByTwo ==
    [][ last_call'.entry \notin { "full_analysis", "get_regime",
                                  "get_engine_regime_history" }
          => previous_regime' = previous_regime ]_vars

\* C16: a full_analysis call that directly follows a full_analysis call
\* which found the slot empty, with the same nav, objective, positions and
\* collected snapshot, returns what that call returned.
C16_SecondAnalysisIdentical ==
    [][ ( /\ last_call.entry = "full_analysis"
          /\ last_call.slot_before = {}
          /\ last_call'.entry = "full_analysis"
          /\ last_call'.args = last_call.args
          /\ last_call'.inputs = last_call.inputs )
          => last_call'.result = last_call.result ]_vars

\* The second of two such calls has returned: it found the slot filled and
\* reports triggered rules for a position.
C16_Witness ==
    /\ last_call.entry = "full_analysis"
    /\ last_call.repeats
    /\ last_call.slot_before # {}
    /\ last_call.result # RaisedValidationError
    /\ \E i \in DOMAIN last_call.result.position_health :
         last_call.result.position_health[i].triggered_count > 0

\* C17 (as claimed): for a position evaluated through
\* full_analysis(nav, objective, positions), X7 is triggered exactly when
\* its daily_pnl is negative and |daily_pnl| / nav exceeds 1.5%.
C17_DailyStopUsesNav ==
    ( /\ last_call.entry = "full_analysis"
      /\ last_call.result # RaisedValidationError ) =>
      \A i \in DOMAIN last_call.args.positions :
        LET daily_pnl == get(last_call.args.positions[i], "daily_pnl", 0)
            exits     == last_call.result.position_health[i].exit_rules
        IN  (Returned(exits, "X7") # {}) <=>
              ( /\ daily_pnl < 0
                /\ 1000 * abs(daily_pnl) > 15 * last_call.args.nav )

(***************************************************************************)
(* Part VI: AggregatedProvider and the fallback walk of MCPClientManager   *)
(*   src/mcp_server/services/mcp_client/aggregated_provider.py             *)
(*   src/mcp_server/services/mcp_client/manager.py                         *)
(*   src/mcp_server/services/mcp_client/tool_mapping.py                    *)
(*                                                                         *)
(* Tool data is JSON: None, a dict or a list.  It is written               *)
(* [kind |-> "none"], [kind |-> "dict", v |-> record] or                   *)
(* [kind |-> "list", v |-> sequence].  Prices are in dollars, implied      *)
(* volatilities in hundredths.  An optional value is a set: {} is None.    *)
(* The string formats of the parsers (CSV rows, the "Global Quote",        *)
(* "Time Series" and "feed" layouts) are not modelled: no modelled server  *)
(* answers with them.  Timestamps are not modelled.                        *)
(***************************************************************************)

None == [ kind |-> "none" ]

Dict(r) == [ kind |-> "dict", v |-> r ]

List(s) == [ kind |-> "list", v |-> s ]

\* Python truth value of tool data: None, {} and [] are false.
truthy(data) ==
    CASE data.kind = "none" -> FALSE
      [] data.kind = "dict" -> DOMAIN data.v # {}
      [] data.kind = "list" -> Len(data.v) > 0

\* d.get(key) or 0 on a dict of numbers.
get_or_zero(d, key) == IF key \in DOMAIN d THEN d[key] ELSE 0

\* data.get("currentPrice") or data.get("regularMarketPrice") or 0
first_price(d) ==
    IF get_or_zero(d, "currentPrice") # 0 THEN d.currentPrice
    ELSE get_or_zero(d, "regularMarketPrice")

\* ToolMapper.parse_quote
parse_quote(data) ==
    IF ~truthy(data) THEN {}
    ELSE IF data.kind # "dict" THEN {}
    ELSE { [ type |-> "Quote",
             price |-> IF first_price(data.v) # 0 THEN first_price(data.v)
                       ELSE get_or_zero(data.v, "price") ] }

\* ToolMapper.parse_price_history; every bar of the modelled servers is a
\* dict
parse_price_history(data) ==
    IF ~truthy(data) THEN {}
    ELSE LET bars_data == IF data.kind = "list" THEN data.v
                          ELSE IF "prices" \in DOMAIN data.v
                               THEN data.v.prices ELSE << >>
         IN  IF Len(bars_data) = 0 THEN {}
             ELSE { [ type |-> "PriceHistory", bars |-> Len(bars_data) ] }

\* The analyst grade of one recommendation, as parse_market_sentiment
\* counts it.
grade_side(rec) ==
    LET grade == IF "toGrade" \in DOMAIN rec THEN rec.toGrade ELSE ""
    IN  IF grade \in {"buy", "overweight", "outperform", "strong_buy"}
        THEN "buy"
        ELSE IF grade \in {"sell", "underweight", "underperform"}
             THEN "sell" ELSE "hold"

\* ToolMapper.parse_market_sentiment, the analyst-recommendation branch
parse_market_sentiment(data) ==
    IF ~truthy(data) THEN {}
    ELSE LET recommendations ==
                 IF data.kind = "list" THEN data.v
                 ELSE IF "recommendations" \in DOMAIN data.v
                      THEN data.v.recommendations ELSE << data.v >>
             count(side) == Cardinality({ i \in DOMAIN recommendations :
                                grade_side(recommendations[i]) = side })
             buy_count == count("buy")
             sell_count == count("sell")
             hold_count == count("hold")
             total == IF buy_count + sell_count + hold_count = 0 THEN 1
                      ELSE buy_count + sell_count + hold_count
             sentiment ==
                 IF 100 * buy_count > 70 * total THEN "bullish"
                 ELSE IF 100 * buy_count > 55 * total THEN "slightly_bullish"
                 ELSE IF 100 * buy_count > 40 * total THEN "neutral"
                 ELSE IF 100 * buy_count > 25 * total THEN "slightly_bearish"
                 ELSE "bearish"
         IN  { [ type |-> "MarketSentiment", sentiment |-> sentiment,
                 total_call_volume |-> buy_count * 10000 + hold_count * 5000,
                 total_put_volume |-> sell_count * 10000 + hold_count * 5000 ] }

\* ToolMapper.build_iv_analysis.  The value of the 52-week-range estimate
\* (a logarithm) is not computed: the result records which branch made it.
build_iv_analysis(data) ==
    IF ~truthy(data) \/ data.kind # "dict" THEN {}
    ELSE LET d == data.v
             current_iv == IF get_or_zero(d, "impliedVolatility") # 0
                           THEN d.impliedVolatility ELSE get_or_zero(d, "iv")
         IN  IF current_iv # 0
             THEN { [ type |-> "IVAnalysis", basis |-> "implied",
                      current_iv |-> current_iv ] }
             ELSE IF {"fiftyTwoWeekHigh", "fiftyTwoWeekLow"} \subseteq DOMAIN d
             THEN IF first_price(d) > 0
                     /\ d.fiftyTwoWeekHigh > d.fiftyTwoWeekLow
                  THEN { [ type |-> "IVAnalysis", basis |-> "range",
                           current_iv |-> 0 ] }
                  ELSE {}
             ELSE {}

\* sorted(xs)[len(xs) // 2]
median(xs) ==
    LET k == Len(xs) \div 2
        below(x) == Cardinality({ i \in DOMAIN xs : xs[i] < x })
        upto(x) == Cardinality({ i \in DOMAIN xs : xs[i] <= x })
    IN  CHOOSE x \in { xs[i] : i \in DOMAIN xs } : below(x) <= k /\ k < upto(x)

\* ToolMapper.build_iv_from_chain.  It takes the median of the 5 contracts
\* nearest the money; the modelled servers send fewer than 5 contracts, so
\* that is the median of all of them and stock_data, which only positions
\* the money, has no effect.
build_iv_from_chain(chain_data) ==
    IF ~truthy(chain_data) THEN {}
    ELSE LET contracts ==
                 IF chain_data.kind = "list" THEN chain_data.v
                 ELSE IF "calls" \in DOMAIN chain_data.v
                      THEN chain_data.v.calls
                      ELSE IF "options" \in DOMAIN chain_data.v
                           THEN chain_data.v.options ELSE << >>
             sane(c) == /\ "impliedVolatility" \in DOMAIN c
                        /\ 0 < c.impliedVolatility
                        /\ c.impliedVolatility < 500
             kept == SelectSeq(contracts, sane)
             ivs == [ i \in DOMAIN kept |-> kept[i].impliedVolatility ]
         IN  IF Len(contracts) = 0 \/ Len(ivs) = 0 THEN {}
             ELSE { [ type |-> "IVAnalysis", basis |-> "chain",
                      current_iv |-> median(ivs) ] }

\* ToolMapper.parse_option_chain on the merged dict.  A contract whose
\* expiration is missing gives "" to date.fromisoformat, which raises; the
\* parser catches it and returns None.
parse_option_chain(merged) ==
    IF DOMAIN merged = {} THEN {}
    ELSE LET calls_data == IF "calls" \in DOMAIN merged
                           THEN merged.calls ELSE << >>
             puts_data == IF "puts" \in DOMAIN merged
                          THEN merged.puts ELSE << >>
             all == calls_data \o puts_data
             dated(c) == "expiration" \in DOMAIN c
         IN  IF \E i \in DOMAIN all : ~dated(all[i]) THEN {}
             ELSE { [ type |-> "OptionChain",
                      expirations |-> { all[i].expiration : i \in DOMAIN all },
                      calls |-> Len(calls_data), puts |-> Len(puts_data) ] }

\* ---- MCPClientManager ----

\* MCPToolCallResult
MCPToolCallResult(server_id, tool_name, success, data) ==
    [ server_id |-> server_id, tool_name |-> tool_name,
      success |-> success, data |-> data ]

\* The configuration loaded at startup: two servers, the second without
\* option tools, and the walk order of each data type.
ServersConfig ==
    [ mcp_servers |->
        [ yahoo |-> [ tool_mappings |->
                        [ get_quote |-> "get_stock_info",
                          get_option_expirations |-> "get_option_expiration_dates",
                          get_option_chain |-> "get_option_chain",
                          get_price_history |-> "get_historical_stock_prices",
                          get_sentiment |-> "get_recommendations" ] ],
          alphavantage |-> [ tool_mappings |->
                        [ get_quote |-> "quote_json",
                          get_price_history |-> "daily_json",
                          get_sentiment |-> "ratings_json" ] ] ],
      fallback_priority |->
        [ quote |-> << "yahoo", "alphavantage" >>,
          options |-> << "yahoo" >>,
          history |-> << "alphavantage", "yahoo" >>,
          sentiment |-> << "yahoo", "alphavantage" >> ] ]

Servers == DOMAIN ServersConfig.mcp_servers

\* What a server can be answering with.
\*   failing : every tool call ends in an error
\*   empty   : every tool call succeeds with no content
\*   priced  : a price, dated contracts with implied volatility, bars, grades
\*   rated   : a price with an implied volatility, analyst grades, one bar,
\*             no option tools content
\*   ranged  : a price with its 52-week range, no expirations
\*   plain   : a price, undated contracts without implied volatility,
\*             no bars, an empty recommendation list
Profiles == { "failing", "empty", "priced", "rated", "ranged", "plain" }

\* Which of the five tools a server tool name is.
tool_kind(tool_name) ==
    CASE tool_name \in {"get_stock_info", "quote_json"} -> "quote"
      [] tool_name = "get_option_expiration_dates" -> "expirations"
      [] tool_name = "get_option_chain" -> "chain"
      [] tool_name \in {"get_historical_stock_prices", "daily_json"} -> "history"
      [] tool_name \in {"get_recommendations", "ratings_json"} -> "sentiment"

\* The content a server in the given profile sends for a tool call.
content(profile, tool_name, args) ==
    LET kind == tool_kind(tool_name)
        priced ==
            CASE kind = "quote" -> Dict([ currentPrice |-> 100 ])
              [] kind = "expirations" ->
                   List(<< "2026-01-16", "2026-02-20" >>)
              [] kind = "chain" ->
                   IF args.option_type = "calls"
                   THEN List(<< [ strike |-> 100, impliedVolatility |-> 30,
                                  expiration |-> args.expiration_date ],
                                [ strike |-> 105, impliedVolatility |-> 20,
                                  expiration |-> args.expiration_date ] >>)
                   ELSE List(<< [ strike |-> 95, impliedVolatility |-> 35,
                                  expiration |-> args.expiration_date ] >>)
              [] kind = "history" ->
                   List(<< [ close |-> 99 ], [ close |-> 100 ] >>)
              [] kind = "sentiment" ->
                   List(<< [ toGrade |-> "buy" ], [ toGrade |-> "hold" ] >>)
        rated ==
            CASE kind = "quote" ->
                   Dict([ currentPrice |-> 100, impliedVolatility |-> 25 ])
              [] kind = "expirations" -> None
              [] kind = "chain" -> None
              [] kind = "history" -> List(<< [ close |-> 100 ] >>)
              [] kind = "sentiment" ->
                   List(<< [ toGrade |-> "buy" ], [ toGrade |-> "outperform" ],
                           [ toGrade |-> "buy" ] >>)
        ranged ==
            CASE kind = "quote" ->
                   Dict([ currentPrice |-> 100, fiftyTwoWeekHigh |-> 120,
                          fiftyTwoWeekLow |-> 80 ])
              [] kind = "expirations" -> List(<< >>)
              [] kind = "chain" -> Dict([ calls |-> << >>, puts |-> << >> ])
              [] kind = "history" ->
                   Dict([ prices |-> << [ close |-> 100 ] >> ])
              [] kind = "sentiment" ->
                   Dict([ recommendations |-> << [ toGrade |-> "sell" ] >> ])
        plain ==
            CASE kind = "quote" -> Dict([ regularMarketPrice |-> 100 ])
              [] kind = "expirations" -> List(<< "2026-01-16" >>)
              [] kind = "chain" -> List(<< [ strike |-> 100 ] >>)
              [] kind = "history" -> Dict([ prices |-> << >> ])
              [] kind = "sentiment" -> Dict([ recommendations |-> << >> ])
    IN  CASE profile = "empty" -> None
          [] profile = "priced" -> priced
          [] profile = "rated" -> rated
          [] profile = "ranged" -> ranged
          [] profile = "plain" -> plain

\* MCPClientManager.call_tool.  session.call_tool raising and a result with
\* isError both end in success = False.
call_tool(m, rem, server_id, tool_name, args) ==
    IF server_id \notin m.sessions
    THEN MCPToolCallResult(server_id, tool_name, FALSE, None)
    ELSE IF rem[server_id] = "failing"
    THEN MCPToolCallResult(server_id, tool_name, FALSE, None)
    ELSE MCPToolCallResult(server_id, tool_name, TRUE,
                           content(rem[server_id], tool_name, args))

\* MCPClientManager.call_tool_with_fallback from position i of the priority
\* list.  Returns the first successful result ({} for None) and the tool
\* calls made on the way.
RECURSIVE walk(_, _, _, _, _, _)
walk(m, rem, priority, i, mapping_key, args) ==
    IF i > Len(priority) THEN [ result |-> {}, calls |-> << >> ]
    ELSE LET server_id == priority[i]
             rest == walk(m, rem, priority, i + 1, mapping_key, args)
         IN  IF server_id \notin m.sessions THEN rest
             ELSE IF server_id \notin DOMAIN ServersConfig.mcp_servers
             THEN rest
             ELSE LET mappings ==
                          ServersConfig.mcp_servers[server_id].tool_mappings
                  IN  IF mapping_key \notin DOMAIN mappings THEN rest
                      ELSE LET tool_name == mappings[mapping_key]
                               r == call_tool(m, rem, server_id, tool_name, args)
                               made == << << server_id, tool_name >> >>
                           IN  IF r.success
                               THEN [ result |-> {r}, calls |-> made ]
                               ELSE [ result |-> rest.result,
                                      calls |-> made \o rest.calls ]

call_tool_with_fallback(m, rem, data_type, mapping_key, args) ==
    LET priority == IF data_type \in DOMAIN ServersConfig.fallback_priority
                    THEN ServersConfig.fallback_priority[data_type]
                    ELSE << >>
    IN  walk(m, rem, priority, 1, mapping_key, args)

\* ---- AggregatedProvider ----

\* What a provider method gives back: a value or a raised exception.
Returns(value) == [ ok |-> TRUE, value |-> value ]

Raises(type, message) == [ ok |-> FALSE, type |-> type, message |-> message ]

\* The data of the one result in an optional result; "result and
\* result.success" has been tested by the caller.
the(opt) == CHOOSE r \in opt : TRUE

\* The outcome of a provider method and the tool calls it made.
Outcome(out, calls) == [ out |-> out, calls |-> calls ]

\* AggregatedProvider.get_quote
get_quote(m, rem, primary) ==
    IF primary.ok THEN Outcome(primary, << >>)
    ELSE LET w == call_tool_with_fallback(m, rem, "quote", "get_quote",
                                          [ ticker |-> "SPY" ])
             quote == IF w.result # {} THEN parse_quote(the(w.result).data)
                      ELSE {}
         IN  IF quote # {} THEN Outcome(Returns(the(quote)), w.calls)
             ELSE Outcome(primary, w.calls)

\* exp_result.data if it is a list, else []
as_list(data) == IF data.kind = "list" THEN data.v ELSE << >>

\* One side of the merged dict of get_option_chain.
side_of(data, side) ==
    IF data.kind = "list" THEN data.v
    ELSE IF data.kind = "dict"
         THEN IF side \in DOMAIN data.v THEN data.v[side] ELSE << >>
         ELSE << >>

\* AggregatedProvider.get_option_chain; expiration is {} for None
get_option_chain(m, rem, primary, expiration) ==
    IF primary.ok THEN Outcome(primary, << >>)
    ELSE LET e == IF expiration = {}
                  THEN call_tool_with_fallback(m, rem, "options",
                           "get_option_expirations", [ ticker |-> "SPY" ])
                  ELSE [ result |-> {}, calls |-> << >> ]
             exps == IF e.result # {} /\ truthy(the(e.result).data)
                     THEN as_list(the(e.result).data) ELSE << >>
             found == IF expiration # {} THEN expiration
                      ELSE IF Len(exps) > 0 THEN { exps[1] } ELSE {}
         IN  IF found = {} THEN Outcome(primary, e.calls)
             ELSE LET args(t) == [ ticker |-> "SPY",
                                   expiration_date |-> the(found),
                                   option_type |-> t ]
                      c == call_tool_with_fallback(m, rem, "options",
                               "get_option_chain", args("calls"))
                      p == call_tool_with_fallback(m, rem, "options",
                               "get_option_chain", args("puts"))
                      with_calls ==
                          IF c.result # {}
                          THEN [ calls |-> side_of(the(c.result).data, "calls") ]
                          ELSE << >>
                      merged ==
                          IF p.result # {}
                          THEN with_calls @@
                               [ puts |-> side_of(the(p.result).data, "puts") ]
                          ELSE with_calls
                      chain == parse_option_chain(merged)
                      calls == e.calls \o c.calls \o p.calls
                  IN  IF chain # {} THEN Outcome(Returns(the(chain)), calls)
                      ELSE Outcome(primary, calls)

\* AggregatedProvider.get_price_history
get_price_history(m, rem, primary, interval) ==
    IF primary.ok THEN Outcome(primary, << >>)
    ELSE LET period == CASE interval = "1d" -> "1mo"
                         [] interval = "1h" -> "5d"
                         [] interval = "5m" -> "1d"
                         [] OTHER -> "1mo"
             w == call_tool_with_fallback(m, rem, "history",
                      "get_price_history",
                      [ ticker |-> "SPY", period |-> period,
                        interval |-> interval ])
             history == IF w.result # {}
                        THEN parse_price_history(the(w.result).data) ELSE {}
         IN  IF history # {} THEN Outcome(Returns(the(history)), w.calls)
             ELSE Outcome(primary, w.calls)

\* The exception get_iv_analysis raises itself.
IvUnavailable ==
    Raises("NotImplementedError", "IV analysis not available from any source")

\* AggregatedProvider.get_iv_analysis
get_iv_analysis(m, rem, primary) ==
    IF primary.ok THEN Outcome(primary, << >>)
    ELSE LET q == call_tool_with_fallback(m, rem, "quote", "get_quote",
                                          [ ticker |-> "SPY" ])
             analysis == IF q.result # {}
                         THEN build_iv_analysis(the(q.result).data) ELSE {}
         IN  IF analysis # {} THEN Outcome(Returns(the(analysis)), q.calls)
             ELSE
             LET e == call_tool_with_fallback(m, rem, "options",
                          "get_option_expirations", [ ticker |-> "SPY" ])
                 exps == IF e.result # {} /\ truthy(the(e.result).data)
                         THEN as_list(the(e.result).data) ELSE << >>
             IN  IF Len(exps) = 0
                 THEN Outcome(IvUnavailable, q.calls \o e.calls)
                 ELSE
                 LET c == call_tool_with_fallback(m, rem, "options",
                              "get_option_chain",
                              [ ticker |-> "SPY", expiration_date |-> exps[1],
                                option_type |-> "calls" ])
                     from_chain == IF c.result # {}
                                   THEN build_iv_from_chain(the(c.result).data)
                                   ELSE {}
                     calls == q.calls \o e.calls \o c.calls
                 IN  IF from_chain # {}
                     THEN Outcome(Returns(the(from_chain)), calls)
                     ELSE Outcome(IvUnavailable, calls)

\* The exception get_market_sentiment raises itself.
SentimentUnavailable ==
    Raises("NotImplementedError",
           "Market sentiment not available from any source")

\* AggregatedProvider.get_market_sentiment
get_market_sentiment(m, rem, primary) ==
    IF primary.ok THEN Outcome(primary, << >>)
    ELSE LET w == call_tool_with_fallback(m, rem, "sentiment", "get_sentiment",
                      [ ticker |-> "SPY",
                        recommendation_type |-> "upgrades_downgrades" ])
             sentiment == IF w.result # {}
                          THEN parse_market_sentiment(the(w.result).data)
                          ELSE {}
         IN  IF sentiment # {} THEN Outcome(Returns(the(sentiment)), w.calls)
             ELSE Outcome(SentimentUnavailable, w.calls)

\* ---- The provider as a state machine ----

\* What the primary provider does with a call: it returns its own value or
\* raises.  The optional methods of a provider that lacks them raise
\* NotImplementedError (providers/base.py).
PrimaryOutcomes(capability) ==
    { Returns([ type |-> capability, source |-> "primary" ]),
      Raises("ConnectionError", "Not connected to primary") }
    \cup ( CASE capability = "iv_analysis" ->
                  { Raises("NotImplementedError",
                           "IV analysis not supported by this provider") }
             [] capability = "market_sentiment" ->
                  { Raises("NotImplementedError",
                           "Market sentiment not supported by this provider") }
             [] OTHER -> {} )

Expirations == { {}, { "2026-03-20" } }

Intervals == { "1d", "1h" }

\* After MCPClientManager.startup: every configured server is enabled and
\* those whose subprocess came up have a session.
ProviderInit ==
    /\ CacheInit
    /\ EngineIdle
    /\ RulesIdle
    /\ FacadeIdle
    /\ mcp \in { [ enabled |-> Servers, sessions |-> s ] : s \in SUBSET Servers }
    /\ remote \in [ Servers -> Profiles ]
    /\ provider_call = [ capability |-> "none" ]
    /\ statuses = Servers
    /\ connecting = [ s \in Servers |-> 0 ]
    /\ fallback = [ state |-> "none" ]

\* MCPClientManager.toggle_server: an enabled server is disabled and loses
\* its session; a disabled one is enabled and connected, if it comes up.
ToggleServer(server_id, connects) ==
    /\ server_id \in Servers
    /\ mcp' = IF server_id \in mcp.enabled
              THEN [ enabled |-> mcp.enabled \ {server_id},
                     sessions |-> mcp.sessions \ {server_id} ]
              ELSE [ enabled |-> mcp.enabled \cup {server_id},
                     sessions |-> IF connects
                                  THEN mcp.sessions \cup {server_id}
                                  ELSE mcp.sessions ]
    /\ UNCHANGED << remote, provider_call, statuses, connecting, fallback >>
    /\ UNCHANGED << cacheVars, engineVars, rulesVars, facadeVars >>

\* An external server starts answering differently.
RemoteChanges(server_id, profile) ==
    /\ remote[server_id] # profile
    /\ remote' = [ remote EXCEPT ![server_id] = profile ]
    /\ UNCHANGED << mcp, provider_call, statuses, connecting, fallback >>
    /\ UNCHANGED << cacheVars, engineVars, rulesVars, facadeVars >>

\* The record of a provider call: what the primary did, what the method
\* returned or raised, and the tool calls it made on fallback servers.
ProviderCall(capability, primary, outcome) ==
    [ capability |-> capability, primary |-> primary,
      out |-> outcome.out, calls |-> outcome.calls ]

GetQuote(primary) ==
    /\ provider_call' = ProviderCall("quote", primary,
                                     get_quote(mcp, remote, primary))
    /\ UNCHANGED << mcp, remote, statuses, connecting, fallback >>
    /\ UNCHANGED << cacheVars, engineVars, rulesVars, facadeVars >>

GetOptionChain(primary, expiration) ==
    /\ provider_call' = ProviderCall("option_chain", primary,
                get_option_chain(mcp, remote, primary, expiration))
    /\ UNCHANGED << mcp, remote, statuses, connecting, fallback >>
    /\ UNCHANGED << cacheVars, engineVars, rulesVars, facadeVars >>

GetPriceHistory(primary, interval) ==
    /\ provider_call' = ProviderCall("price_history", primary,
                get_price_history(mcp, remote, primary, interval))
    /\ UNCHANGED << mcp, remote, statuses, connecting, fallback >>
    /\ UNCHANGED << cacheVars, engineVars, rulesVars, facadeVars >>

GetIvAnalysis(primary) ==
    /\ provider_call' = ProviderCall("iv_analysis", primary,
                                     get_iv_analysis(mcp, remote, primary))
    /\ UNCHANGED << mcp, remote, statuses, connecting, fallback >>
    /\ UNCHANGED << cacheVars, engineVars, rulesVars, facadeVars >>

GetMarketSentiment(primary) ==
    /\ provider_call' = ProviderCall("market_sentiment", primary,
                get_market_sentiment(mcp, remote, primary))
    /\ UNCHANGED << mcp, remote, statuses, connecting, fallback >>
    /\ UNCHANGED << cacheVars, engineVars, rulesVars, facadeVars >>

ProviderNext ==
    \/ \E s \in Servers, connects \in BOOLEAN : ToggleServer(s, connects)
    \/ \E s \in Servers, profile \in Profiles : RemoteChanges(s, profile)
    \/ \E primary \in PrimaryOutcomes("quote") : GetQuote(primary)
    \/ \E primary \in PrimaryOutcomes("option_chain"), e \in Expirations :
           GetOptionChain(primary, e)
    \/ \E primary \in PrimaryOutcomes("price_history"), i \in Intervals :
           GetPriceHistory(primary, i)
    \/ \E primary \in PrimaryOutcomes("iv_analysis") : GetIvAnalysis(primary)
    \/ \E primary \in PrimaryOutcomes("market_sentiment") :
           GetMarketSentiment(primary)

SpecProvider == ProviderInit /\ [][ProviderNext]_vars

(***************************************************************************)
(* Claims about the aggregated provider                                    *)
(***************************************************************************)

FallbackCapabilities ==
    { "quote", "option_chain", "price_history", "iv_analysis",
      "market_sentiment" }

\* C20: for each capability with a fallback, a call whose primary raised
\* and that got no mapped value from a fallback server raises the primary's
\* own error, and a call whose primary succeeded returns the primary's value
\* without any tool call on a fallback server.
C20_PrimaryErrorPreserved ==
    provider_call.capability \in FallbackCapabilities =>
        /\ provider_call.primary.ok =>
               /\ provider_call.calls = << >>
               /\ provider_call.out = provider_call.primary
        /\ (~provider_call.primary.ok /\ ~provider_call.out.ok) =>
               provider_call.out = provider_call.primary

\* The servers of a data type's priority list that the walk does not skip:
\* those with a session and a tool mapping for the key, in list order.
eligible(m, data_type, mapping_key) ==
    SelectSeq(ServersConfig.fallback_priority[data_type],
              LAMBDA s : /\ s \in m.sessions
                         /\ mapping_key \in
                              DOMAIN ServersConfig.mcp_servers[s].tool_mappings)

\* What each single-walk capability asks of the fallback servers and the
\* parser it maps the answer with.
WalkOf(capability) ==
    CASE capability = "quote" ->
           [ data_type |-> "quote", mapping_key |-> "get_quote" ]
      [] capability = "price_history" ->
           [ data_type |-> "history", mapping_key |-> "get_price_history" ]
      [] capability = "market_sentiment" ->
           [ data_type |-> "sentiment", mapping_key |-> "get_sentiment" ]

mapped(capability, data) ==
    CASE capability = "quote" -> parse_quote(data)
      [] capability = "price_history" -> parse_price_history(data)
      [] capability = "market_sentiment" -> parse_market_sentiment(data)

\* The mapped value of server s for a capability: {} if its tool call fails
\* or its response does not map.  (No modelled answer depends on the
\* arguments of these three tools.)
yields(m, rem, capability, s) ==
    LET w == WalkOf(capability)
        tool == ServersConfig.mcp_servers[s].tool_mappings[w.mapping_key]
        r == call_tool(m, rem, s, tool, [ ticker |-> "SPY" ])
    IN  IF r.success THEN mapped(capability, r.data) ELSE {}

\* C21: when the primary fails, the fallback servers are called in the
\* priority order of the capability, skipping those without a session or a
\* tool mapping, and the call returns the value of the first server in that
\* order whose tool call succeeds and whose response maps; a server whose
\* call fails or whose response does not map does not end the walk.
C21_FirstMappedInPriorityOrder ==
    [][ ( /\ provider_call' # provider_call
          /\ provider_call'.capability \in
               {"quote", "price_history", "market_sentiment"}
          /\ ~provider_call'.primary.ok ) =>
        LET cap == provider_call'.capability
            order == eligible(mcp, WalkOf(cap).data_type,
                              WalkOf(cap).mapping_key)
            good == { i \in DOMAIN order :
                        yields(mcp, remote, cap, order[i]) # {} }
            calls == provider_call'.calls
        IN  /\ Len(calls) <= Len(order)
            /\ \A i \in DOMAIN calls : calls[i][1] = order[i]
            /\ IF good = {} THEN ~provider_call'.out.ok
               ELSE LET first == CHOOSE i \in good : \A j \in good : i <= j
                    IN  /\ provider_call'.out.ok
                        /\ { provider_call'.out.value } =
                             yields(mcp, remote, cap, order[first])
      ]_vars

\* C22: in a full_analysis call that returns, A8 is reported for a position
\* exactly when the previous-regime slot the call found is non-empty and
\* holds a level other than the one the call classified; the slot the call
\* found is the one left by the most recent slot-writing call of any entry
\* point, and the call stores its own regime in the slot only on return.
\* (A step that leaves the collector's snapshot alone is a call of an entry
\* point.)
C22_A8AgainstLastStoredRegime ==
    [][ ( /\ inputs' = inputs
          /\ last_call'.entry = "full_analysis"
          /\ last_call'.result # RaisedValidationError ) =>
        LET res == last_call'.result IN
        /\ last_call'.slot_before = previous_regime
        /\ \A i \in DOMAIN res.position_health :
             (Returned(res.position_health[i].adjustment_rules, "A8") # {})
               <=> ( /\ previous_regime # {}
                     /\ \A p \in previous_regime :
                          p.regime # res.regime.regime )
        /\ previous_regime' = { res.regime }
      ]_vars

\* A full_analysis call with two positions found in the slot a regime other
\* than the one it classified, left there by an earlier call after which the
\* market moved, and reported A8 for both positions.
C22_Witness ==
    /\ last_call.entry = "full_analysis"
    /\ last_call.result # RaisedValidationError
    /\ last_call.slot_before # {}
    /\ last_call.slot_before # { last_call.result.regime }
    /\ Len(last_call.result.position_health) = 2
    /\ \A i \in DOMAIN last_call.result.position_health :
         Returned(last_call.result.position_health[i].adjustment_rules,
                  "A8") # {}

\* C23 (as claimed): the regime-history response gives as current the
\* regime classified during the request and as previous the regime that was
\* in the previous-regime slot before the request (null if it was empty).
C23_HistoryShowsEarlierRegime ==
    last_call.entry = "get_engine_regime_history" =>
        /\ last_call.result.current = classify(last_call.inputs)
        /\ last_call.result.previous = last_call.slot_before

(***************************************************************************)
(* Claims about removal from the cache                                     *)
(***************************************************************************)

\* C24 (as claimed): once invalidate, invalidate_prefix or clear has removed
\* a key, no later get on the key and no get_or_fetch called later on the
\* key returns a value produced by a fetch_fn invocation that was running
\* when the key was removed.  (Of the later get_or_fetch calls the formula
\* looks at those that return without suspending.)
C24_NoValueFromBeforeRemoval ==
    [][ /\ ( /\ lastOp'.op = "get"
             /\ lastOp'.ret.kind = "value" )
          => lastOp'.ret.v \notin overtaken
        /\ \A c \in Callers :
             ( /\ pc[c] = "idle"
               /\ pc'[c] = "done"
               /\ result'[c].kind = "value" )
               => result'[c].v \notin overtaken
      ]_vars

(***************************************************************************)
(* Claims about termination of get_or_fetch                                *)
(***************************************************************************)

\* C25: if every fetch_fn invocation eventually returns or raises, every
\* get_or_fetch call eventually returns or raises (or is cancelled): a lock
\* is held only by a caller whose fetch_fn invocation is running, so it is
\* released on success, exception and cancellation, and a caller that is
\* suspended, in lock.acquire() or in fetch_fn, does not stay suspended.
C25_EveryCallReturns ==
    /\ [](\A k \in Keys : holder[k] # 0 =>
             /\ pc[holder[k]] = "fetching"
             /\ ckey[holder[k]] = k)
    /\ \A c \in Callers : (pc[c] \in {"waiting", "fetching"}) ~> (pc[c] = "done")

\* A caller that was suspended in lock.acquire() behind another caller's
\* invocation has returned, after that invocation ended by raising or by
\* cancellation.
C25_Witness ==
    \E c \in Callers, d \in Callers :
        /\ c # d
        /\ pc[c] = "done"
        /\ pc[d] = "done"
        /\ joined[c] = d
        /\ fout[d] \in {"raised", "cancelled"}
        /\ fout[c] = "ok"

(***************************************************************************)
(* Part VII: MCPClientManager between its suspension points                *)
(***************************************************************************)

\* The most _connect_server calls of one server awaiting at the same time.
MaxConnects == 2

\* The (data_type, mapping_key) pairs AggregatedProvider walks with.
FallbackWalks ==
    { WalkOf(c) : c \in {"quote", "price_history", "market_sentiment"} }
        \cup { [ data_type |-> "options", mapping_key |-> "get_option_chain" ] }

\* startup: the configuration is loaded, every configured server gets a
\* status, and gather starts _connect_server for each server the file
\* enables; each of these suspends in stdio_client.
Startup(enabled) ==
    /\ statuses = {}
    /\ statuses' = Servers
    /\ mcp' = [ enabled |-> enabled, sessions |-> mcp.sessions ]
    /\ connecting' = [ s \in Servers |-> IF s \in enabled THEN 1 ELSE 0 ]
    /\ UNCHANGED << remote, provider_call, fallback >>
    /\ UNCHANGED << cacheVars, engineVars, rulesVars, facadeVars >>

\* toggle_server up to its return (disabling) or up to the first await of
\* _connect_server (enabling).
ToggleServerBegins(server_id) ==
    /\ server_id \in statuses
    /\ IF server_id \in mcp.enabled
       THEN /\ mcp' = [ enabled |-> mcp.enabled \ {server_id},
                        sessions |-> mcp.sessions \ {server_id} ]
            /\ UNCHANGED connecting
       ELSE /\ connecting[server_id] < MaxConnects
            /\ mcp' = [ enabled |-> mcp.enabled \cup {server_id},
                        sessions |-> mcp.sessions ]
            /\ connecting' = [ connecting EXCEPT ![server_id] = @ + 1 ]
    /\ UNCHANGED << remote, provider_call, statuses, fallback >>
    /\ UNCHANGED << cacheVars, engineVars, rulesVars, facadeVars >>

\* reconnect_server up to the first await of _connect_server.
ReconnectServerBegins(server_id) ==
    /\ server_id \in statuses
    /\ server_id \in mcp.enabled
    /\ connecting[server_id] < MaxConnects
    /\ mcp' = [ enabled |-> mcp.enabled,
                sessions |-> mcp.sessions \ {server_id} ]
    /\ connecting' = [ connecting EXCEPT ![server_id] = @ + 1 ]
    /\ UNCHANGED << remote, provider_call, statuses, fallback >>
    /\ UNCHANGED << cacheVars, engineVars, rulesVars, facadeVars >>

\* _connect_server after its last await: the session is stored; or one of
\* its awaits raises and nothing is stored.
ConnectServerEnds(server_id, connected) ==
    /\ statuses # {}
    /\ connecting[server_id] > 0
    /\ connecting' = [ connecting EXCEPT ![server_id] = @ - 1 ]
    /\ mcp' = [ enabled |-> mcp.enabled,
                sessions |-> IF connected
                             THEN mcp.sessions \cup {server_id}
                             ELSE mcp.sessions ]
    /\ UNCHANGED << remote, provider_call, statuses, fallback >>
    /\ UNCHANGED << cacheVars, engineVars, rulesVars, facadeVars >>

\* The fallback_priority list call_tool_with_fallback reads: empty until
\* startup has loaded the configuration.
priority_of(data_type) ==
    IF statuses = {} THEN << >>
    ELSE ServersConfig.fallback_priority[data_type]

\* The loop of call_tool_with_fallback from position from: the first
\* position whose server has a session and a tool for mapping_key, 0 if the
\* loop ends without one.
next_call(asked, from) ==
    LET priority == priority_of(asked.data_type)
        sendable == { i \in DOMAIN priority :
                        /\ i >= from
                        /\ priority[i] \in mcp.sessions
                        /\ asked.mapping_key \in DOMAIN
                             ServersConfig.mcp_servers[priority[i]].tool_mappings }
    IN  IF sendable = {} THEN 0
        ELSE CHOOSE i \in sendable : \A j \in sendable : i <= j

\* call_tool_with_fallback suspended in session.call_tool of the server at
\* position i, or returned when i = 0.
FallbackAt(asked, i) ==
    IF i = 0 THEN [ state |-> "none" ]
    ELSE LET server_id == priority_of(asked.data_type)[i]
         IN  [ state |-> "awaiting", walk |-> asked, i |-> i,
               server_id |-> server_id,
               enabled |-> server_id \in mcp.enabled ]

\* call_tool_with_fallback up to its first tool call (or its return).
FallbackBegins(asked) ==
    /\ fallback.state = "none"
    /\ fallback' = FallbackAt(asked, next_call(asked, 1))
    /\ UNCHANGED << mcp, remote, provider_call, statuses, connecting >>
    /\ UNCHANGED << cacheVars, engineVars, rulesVars, facadeVars >>

\* session.call_tool ends: a successful result is returned; after a failed
\* one the loop goes on to its next tool call (or returns None).
ToolCallEnds(success) ==
    /\ fallback.state = "awaiting"
    /\ fallback' = IF success THEN [ state |-> "none" ]
                   ELSE FallbackAt(fallback.walk,
                                   next_call(fallback.walk, fallback.i + 1))
    /\ UNCHANGED << mcp, remote, provider_call, statuses, connecting >>
    /\ UNCHANGED << cacheVars, engineVars, rulesVars, facadeVars >>

ManagerNext ==
    \/ \E enabled \in SUBSET Servers : Startup(enabled)
    \/ \E s \in Servers : ToggleServerBegins(s)
    \/ \E s \in Servers : ReconnectServerBegins(s)
    \/ \E s \in Servers, connected \in BOOLEAN : ConnectServerEnds(s, connected)
    \/ \E asked \in FallbackWalks : FallbackBegins(asked)
    \/ \E success \in BOOLEAN : ToolCallEnds(success)

SpecManager == Init /\ [][ManagerNext]_vars

\* C26 (as claimed): under every interleaving of startup, toggle_server,
\* reconnect_server and call_tool_with_fallback, a server that is disabled
\* has no entry in the session table, and the server a fallback tool call
\* is sent to is enabled when the call is sent.
C26_DisabledHasNoSession ==
    /\ mcp.sessions \subseteq mcp.enabled
    /\ fallback.state = "awaiting" => fallback.enabled

(***************************************************************************)
(* Claims about the selector's recommendations under the classified regime *)
(***************************************************************************)

\* C27 (as claimed): every candidate of a recommendation of type TRADE or
\* TRADE_CAUTIOUS has a size_multiplier strictly greater than 0, whatever
\* the regime, the inputs and the objective.
C27_TradedSizePositive ==
    ( /\ phase = "selected"
      /\ reco # RaisedValidationError
      /\ reco.recommendation \in {"TRADE", "TRADE_CAUTIOUS"} ) =>
      \A i \in DOMAIN reco.strategies :
          reco.strategies[i].params.size_multiplier > 0

\* C28 (as claimed): in every full_analysis result whose regime level is
\* CRISIS the tail-risk assessment of the same result has the crisis
\* protocol active, with a non-empty list of crisis actions.
C28_CrisisRegimeActivatesProtocol ==
    ( /\ last_call.entry = "full_analysis"
      /\ last_call.result # RaisedValidationError
      /\ last_call.result.regime.regime = "CRISIS" ) =>
      /\ last_call.result.tail_risk.crisis_protocol_active
      /\ last_call.result.tail_risk.crisis_actions # << >>

\* C29: whenever classify returns level EXTREME the result has no
\* confirming signal and confidence LOW, and select never returns
\* recommendation TRADE for it.
C29_ExtremeIsLowConfidence ==
    ( /\ phase \in {"classified", "selected"}
      /\ regime.regime = "EXTREME" ) =>
      /\ regime.confirming_signals = 0
      /\ regime.confidence = "LOW"
      /\ ( /\ phase = "selected"
           /\ reco # RaisedValidationError ) => reco.recommendation # "TRADE"

\* select has answered an EXTREME regime, whose snapshot has the HY-OAS and
\* term-structure readings that confirm a HIGH regime, with TRADE_CAUTIOUS.
C29_Witness ==
    /\ phase = "selected"
    /\ regime.regime = "EXTREME"
    /\ inputs.hy_oas_20d_change > 30
    /\ inputs.ts_1m_3m < 10
    /\ reco # RaisedValidationError
    /\ reco.recommendation = "TRADE_CAUTIOUS"

\* C30 (as claimed): with the catalog as it is, select returns
\* REGIME_UNCERTAIN only if no template that passes all of its gates and
\* the objective filter has at least 2 legs.
C30_UncertainOnlyWithoutMultiLeg ==
    ( /\ phase = "selected"
      /\ reco # RaisedValidationError
      /\ reco.recommendation = "REGIME_UNCERTAIN" ) =>
      LET names == reaching_score(regime, inputs, objective)
      IN  \A i \in DOMAIN names : TEMPLATES[names[i]].legs < 2

====
